---- MODULE Spec2Model ----
(***************************************************************************)
(* Verification model of the multi-agent query dispatcher                  *)
(* (garciatejedaml/agentic-ai-system).                                     *)
(*                                                                         *)
(* The specifications of this module share its variables; each runs one    *)
(* part of the system and leaves the others at rest:                       *)
(*   SpecRouter     the model router          (agents/llm_router.py)       *)
(*   SpecFanout     the A2A client, the fan-out and the merger             *)
(*   SpecFanoutFair (a2a/client.py, a2a/parallel_client.py,                *)
(*                   agents/orchestrator.py); Fair: every call ends        *)
(*   SpecPipeline   the graph and its nodes   (graph/nodes.py, workflow.py)*)
(*   SpecWorker     the registry and a worker service                      *)
(*                  (a2a/registry.py, services/base_service.py)            *)
(*   Spec           the chat gateway and the session store                 *)
(*   SpecTraders    (api/server.py, api/sessions.py); Traders: requests    *)
(*                  that carry a user and a desk                           *)
(*   SpecPool       the gateway's thread pool and the compiled graph       *)
(*                  (api/server.py, graph/workflow.py)                     *)
(*                                                                         *)
(* A Python string is modelled as a sequence of non-empty pieces, so that  *)
(* concatenation is \o and the empty string is <<>>.                       *)
(***************************************************************************)
EXTENDS Integers, Sequences, FiniteSets, TLC

VARIABLES
    rPc,        \* router: "idle" before route_query is called, "done" after
    rReg,       \* router: what list_all_agents() did for this call
    rLlm,       \* router: what litellm.completion() did for this call
    rResult,    \* router: what route_query did (returned decision / raised)
    fPc,        \* financial branch: "idle", "calling" (a fan-out is running), "done"
    fDecision,  \* financial branch: the RouterDecision being served
    fIdx,       \* financial branch: position of the sequential loop in decision.agents
    fBatch,     \* fan-out: agent_ids of the running call_agents_parallel
    fCalls,     \* fan-out: per position, the _call_one coroutine: pending or its outcome
    fOrder,     \* fan-out: positions in the order their coroutines completed
    fReturned,  \* fan-out: the dict the last call_agents_parallel returned
    fResults,   \* financial branch: the results dict
    fResearch,  \* financial branch: research_text
    fRag,       \* financial branch: rag_context, the pre-retrieved documents
    fTrace,     \* financial branch: the fan-out invocations, the tasks posted
                \* and the returns of the fan-out, in order
    MAX_MESSAGES,   \* sessions.py: SESSION_MAX_MESSAGES as read at import
    MAX_MSG_CHARS,  \* sessions.py: SESSION_MAX_MSG_CHARS as read at import
    store,      \* the sessions table: session_id -> item, or NoRow
    minted,     \* number of session ids create_session has minted
    nReq,       \* number of chat requests received
    reqs,       \* per chat request: its position in chat_completions, its
                \* locals, its response, and its save_session task
    okTurns,    \* per session_id: number of appends that were persisted
    pPc,        \* pipeline run: "idle", the node that runs next, or "end"
    pState,     \* pipeline run: the AgentState of the graph
    pRetr,      \* pipeline run: what the retriever did when retrieve_node called it
    pOrch,      \* pipeline run: what run_strands_orchestrator did when called
    pTrace,     \* pipeline run: the nodes that have returned, in order
    pLast,      \* pipeline run: the update the last node returned
    regTable,   \* registry table: agent_id -> item, or NoItem
    regUp,      \* registry backend: TRUE when its calls succeed
    now,        \* time.time(), in seconds
    wState,     \* worker service: "down", "running", "stopped" or "crashed"
    wStartReg,  \* worker service: what register_agent did at startup
    wDereg,     \* worker service: what deregister_agent did at shutdown
    resolved,   \* the last get_endpoint call: its arguments and its result
    a2aLast,    \* worker service: the last POST /a2a: the task and the answer
    hPc,        \* gateway pool: per chat request, where its handler is
    queue,      \* gateway pool: the tasks handed to _executor and not yet taken
    slot,       \* gateway pool: per thread of _executor, the task it runs
    _compiled_graph,  \* workflow.py: the global of that name
    builds,     \* workflow.py: number of build_graph calls so far
    used        \* workflow.py: the graphs run_query has invoked

routerVars == <<rPc, rReg, rLlm, rResult>>

fanVars == <<fPc, fDecision, fIdx, fBatch, fCalls, fOrder, fReturned, fResults, fResearch,
             fRag, fTrace>>

sessVars == <<MAX_MESSAGES, MAX_MSG_CHARS, store, minted, nReq, reqs, okTurns>>

pipeVars == <<pPc, pState, pRetr, pOrch, pTrace, pLast>>

workerVars == <<regTable, regUp, now, wState, wStartReg, wDereg, resolved, a2aLast>>

poolVars == <<hPc, queue, slot, _compiled_graph, builds, used>>

vars == <<routerVars, fanVars, sessVars, pipeVars, workerVars, poolVars>>

notRouterVars == <<fanVars, sessVars, pipeVars, workerVars, poolVars>>
notFanVars == <<routerVars, sessVars, pipeVars, workerVars, poolVars>>
notSessVars == <<routerVars, fanVars, pipeVars, workerVars, poolVars>>
notPipeVars == <<routerVars, fanVars, sessVars, workerVars, poolVars>>
notWorkerVars == <<routerVars, fanVars, sessVars, pipeVars, poolVars>>
notPoolVars == <<routerVars, fanVars, sessVars, pipeVars, workerVars>>

None == [kind |-> "none"]

(***************************************************************************)
(* Generic helpers                                                         *)
(***************************************************************************)
Range(s) == {s[i] : i \in 1..Len(s)}

SeqsUpTo(S, n) == UNION {[1..k -> S] : k \in 0..n}

\* str(x) for a piece: the empty Python string has no pieces
Str(x) == IF x = "" THEN <<>> ELSE <<x>>

(***************************************************************************)
(* Bounds                                                                  *)
(***************************************************************************)
\* longest "agents" list the model's answer carries
MaxAgents == 2

\* longest agents list of a decision handed to the fan-out
MaxFan == 2

\* steps of the clock
MaxTicks == 3

\* threads of the gateway's executor, and chat requests handed to it
MaxWorkers == 2
MaxPoolRequests == 3

\* chat requests the gateway receives
MaxRequests == 2

\* largest SESSION_MAX_MESSAGES the service is configured with
MaxMessagesCfg == 2

(***************************************************************************)
(* Model router  (src/repo-api/src/agents/llm_router.py)                   *)
(***************************************************************************)
_FALLBACK_AGENT == "kdb-agent"

\* keys of _AGENT_DESCRIPTIONS
_AGENT_DESCRIPTIONS == {"kdb-agent", "amps-agent", "portfolio-agent", "cds-agent",
                        "etf-agent", "risk-pnl-agent", "financial-orchestrator"}

\* ids the model's answer may name: three curated ones and one nobody knows
AnswerIds == {"kdb-agent", "etf-agent", "risk-pnl-agent", "ghost-agent"}

\* ids the registry may hold: two curated ones and one without a curated
\* description
RegistryIds == {"kdb-agent", "etf-agent", "new-agent"}

\* list_all_agents(): the rows of the registry, or an exception
list_all_agents ==
    {[kind |-> "raise"]} \cup {[kind |-> "rows", ids |-> S] : S \in SUBSET RegistryIds}

\* the "agents" member of the answer: absent, null, a string, or a list
AgentsValues ==
    {[t |-> "absent"], [t |-> "null"], [t |-> "str"]}
        \cup {[t |-> "list", items |-> s] : s \in SeqsUpTo(AnswerIds, MaxAgents)}

StrategyValues == {"absent", "parallel", "sequential", "round-robin"}

\* JSON documents the model may answer with: an object, or something that is
\* valid JSON but no object
JsonDocs ==
    {[t |-> "json", k |-> "array"]}
        \cup {[t |-> "json", k |-> "object", agents |-> a, strategy |-> s] :
                a \in AgentsValues, s \in StrategyValues}

Fence(lang) == [t |-> "fence", lang |-> lang]
Prose == [t |-> "prose"]

\* the lines of response.choices[0].message.content.strip()
RawShapes(j) ==
    { <<j>>,                                \* bare JSON
      <<Fence("json"), j, Fence("")>>,      \* fenced
      <<Fence("json"), j>>,                 \* fence never closed
      <<Prose, j>> }                        \* prose around the JSON

\* litellm.completion(): an exception (network, credentials, no content), or
\* the lines of the answer
LlmOutcomes ==
    {[kind |-> "raise"],
     [kind |-> "text", lines |-> <<Prose>>],
     [kind |-> "text", lines |-> <<Fence("json"), Fence("")>>]}
        \cup {[kind |-> "text", lines |-> l] : l \in UNION {RawShapes(j) : j \in JsonDocs}}

\* lines 133-135: strip the code fence
StripFence(lines) ==
    IF Len(lines) > 0 /\ lines[1].t = "fence"
    THEN IF lines[Len(lines)] = Fence("")
         THEN SubSeq(lines, 2, Len(lines) - 1)
         ELSE SubSeq(lines, 2, Len(lines))
    ELSE lines

\* line 136: json.loads(raw); anything but one JSON document raises
JsonLoads(lines) ==
    IF Len(lines) = 1 /\ lines[1].t = "json"
    THEN [kind |-> "ok", value |-> lines[1]]
    ELSE [kind |-> "exc"]

\* C8 mutant: the "or [_FALLBACK_AGENT]" is lost
ValidateAgentsNoDefault(agents) ==
    SelectSeq(agents, LAMBDA a : a \in _AGENT_DESCRIPTIONS)

\* C10 mutant: the ids are not filtered at all
ValidateAgentsNoFilter(agents) ==
    IF agents = <<>> THEN <<_FALLBACK_AGENT>> ELSE agents

\* lines 143-144: keep the known ids, or the fallback agent
ValidateAgents(agents) ==
    LET known == _AGENT_DESCRIPTIONS
        kept  == SelectSeq(agents, LAMBDA a : a \in known)
    IN  IF kept = <<>> THEN <<_FALLBACK_AGENT>> ELSE kept

RouterDecision(agents, strategy, reasoning, fallback_used) ==
    [agents |-> agents, strategy |-> strategy,
     reasoning |-> reasoning, fallback_used |-> fallback_used]

\* lines 157-162: the decision of the except branch
FallbackDecision == RouterDecision(<<_FALLBACK_AGENT>>, "parallel", "fallback", TRUE)

\* lines 138-152: from the parsed JSON to the decision; "exc" when
\* a statement raises (no .get on a non-object, iterating null)
DecisionOf(doc) ==
    IF doc.k # "object" \/ doc.agents.t = "null" THEN [kind |-> "exc"]
    ELSE LET agents == CASE doc.agents.t = "absent" -> <<_FALLBACK_AGENT>>
                         [] doc.agents.t = "list"   -> doc.agents.items
                         [] doc.agents.t = "str"    -> <<"k", "d", "b">>
             strategy == IF doc.strategy = "absent" THEN "parallel" ELSE doc.strategy
         IN  [kind |-> "ok",
              decision |-> RouterDecision(ValidateAgents(agents), strategy, "", FALSE)]

\* lines 118-152: the body of the try statement
RouterTry(llm) ==
    IF llm.kind = "raise" THEN [kind |-> "exc"]
    ELSE LET parsed == JsonLoads(StripFence(llm.lines))
         IN  IF parsed.kind = "exc" THEN [kind |-> "exc"] ELSE DecisionOf(parsed.value)

\* C9 mutant: the except clause catches the JSON errors only, so that a
\* failing model call leaves route_query
RouterExceptJsonOnly(llm, body) ==
    IF body.kind = "ok" THEN [kind |-> "return", decision |-> body.decision]
    ELSE IF llm.kind = "raise" THEN [kind |-> "raise"]
    ELSE [kind |-> "return", decision |-> FallbackDecision]

\* lines 154-162: "except Exception" around the body
RouterExcept(llm, body) ==
    IF body.kind = "ok" THEN [kind |-> "return", decision |-> body.decision]
    ELSE [kind |-> "return", decision |-> FallbackDecision]

\* lines 91-95: the registry read, guarded by its own try
ActiveAgents(reg) == IF reg.kind = "raise" THEN {} ELSE reg.ids

\* lines 96-111: the ids listed in the prompt
Catalogue(reg) ==
    IF ActiveAgents(reg) # {}
    THEN ActiveAgents(reg) \cap _AGENT_DESCRIPTIONS
    ELSE _AGENT_DESCRIPTIONS

route_query(reg, llm) == RouterExcept(llm, RouterTry(llm))

(***************************************************************************)
(* A2A client  (src/repo-api/src/a2a/client.py)                            *)
(***************************************************************************)
\* default of the timeout parameter, as it prints in an f-string
DefaultTimeout == "120"

\* the exception classes the HTTP exchange raises, and the handlers that
\* catch them (httpx.ConnectTimeout and ReadTimeout are TimeoutExceptions)
TimeoutClasses == {"ReadTimeout", "ConnectTimeout"}
ConnectClasses == {"ConnectError"}
ExceptionClasses ==
    TimeoutClasses \cup ConnectClasses \cup {"HTTPStatusError", "JSONDecodeError", "ValidationError"}

\* what the POST and the decoding of its answer can do (lines 47-54)
Exchanges ==
    {[k |-> "result", status |-> "completed", parts |-> <<<<"ETF text">>>>, error |-> <<>>],
     [k |-> "result", status |-> "completed", parts |-> <<<<>>>>, error |-> <<>>],
     [k |-> "result", status |-> "completed", parts |-> <<>>, error |-> <<>>],
     [k |-> "result", status |-> "failed", parts |-> <<>>, error |-> <<"boom">>]}
        \cup {[k |-> "exc", class |-> c] :
                c \in {"ReadTimeout", "ConnectError", "HTTPStatusError", "ValidationError"}}

Return(v) == [kind |-> "return", value |-> v]
Raise(c) == [kind |-> "raise", class |-> c]

\* lines 54-62: the body of the try statement once the result is validated
CallAgentBody(endpoint, x) ==
    IF x.status = "failed"
    THEN Return(<<"Agent at ", endpoint, " returned error: ">> \o x.error)
    ELSE IF Len(x.parts) > 0
         THEN Return(x.parts[1])
         ELSE Return(<<"Agent returned no output.">>)

\* C2 mutant: the last handler, "except Exception", is missing
CallAgentExceptNoCatchAll(endpoint, timeout, class) ==
    IF class \in TimeoutClasses
    THEN Return(<<"Agent at ", endpoint, " timed out after ", timeout, "s.">>)
    ELSE IF class \in ConnectClasses
    THEN Return(<<"Agent at ", endpoint,
                  " is unreachable. Check that the service is running.">>)
    ELSE Raise(class)

\* C23 mutant: httpx.TimeoutException has no handler of its own
CallAgentExceptNoTimeout(endpoint, timeout, class) ==
    IF class \in ConnectClasses
    THEN Return(<<"Agent at ", endpoint,
                  " is unreachable. Check that the service is running.">>)
    ELSE IF class \in ExceptionClasses
    THEN Return(<<"A2A call to ", endpoint, " failed: ", class>>)
    ELSE Raise(class)

\* lines 64-69: the except clauses, in order
CallAgentExcept(endpoint, timeout, class) ==
    IF class \in TimeoutClasses
    THEN Return(<<"Agent at ", endpoint, " timed out after ", timeout, "s.">>)
    ELSE IF class \in ConnectClasses
    THEN Return(<<"Agent at ", endpoint,
                  " is unreachable. Check that the service is running.">>)
    ELSE IF class \in ExceptionClasses
    THEN Return(<<"A2A call to ", endpoint, " failed: ", class>>)
    ELSE Raise(class)

\* lines 21-69
call_agent(endpoint, timeout, x) ==
    IF x.k = "exc"
    THEN CallAgentExcept(endpoint, timeout, x.class)
    ELSE CallAgentBody(endpoint, x)

(***************************************************************************)
(* Fan-out  (src/repo-api/src/a2a/parallel_client.py)                      *)
(***************************************************************************)
\* ids of the decisions handed to the fan-out
FanIds == {"etf-agent", "portfolio-agent"}

\* the endpoint a healthy registration holds, and the configured fallback URL
RegisteredUrl(id) == IF id = "etf-agent" THEN "http://10.0.0.4:8004" ELSE "http://10.0.0.5:8005"
get_agent_url(id) == IF id = "etf-agent" THEN "http://etf-agent:8004" ELSE "http://portfolio-agent:8005"

\* discover_agent(id): no row (or a backend fault), a healthy row, a row of
\* another status
Discoveries(id) ==
    {[row |-> FALSE, status |-> "", endpoint |-> ""],
     [row |-> TRUE, status |-> "healthy", endpoint |-> RegisteredUrl(id)],
     [row |-> TRUE, status |-> "unknown", endpoint |-> RegisteredUrl(id)]}

\* C13 mutant: the status of the item is not looked at
get_endpointAnyStatus(item, fallback) ==
    IF item.row THEN item.endpoint ELSE fallback

\* registry.py lines 90-99
get_endpoint(item, fallback) ==
    IF item.row /\ item.status = "healthy" THEN item.endpoint ELSE fallback

\* lines 36-39: one coroutine; what gather collects for it
CallOne(id, item, x) ==
    LET r == call_agent(get_endpoint(item, get_agent_url(id)), DefaultTimeout, x)
    IN  IF r.kind = "raise"
        THEN [kind |-> "exc", msg |-> r.class]
        ELSE [kind |-> "ok", id |-> id, text |-> r.value]

\* a dict, in insertion order, as a sequence of <<key, value>>
DictHas(d, k) == \E i \in 1..Len(d) : d[i][1] = k
DictSet(d, k, v) ==
    IF DictHas(d, k)
    THEN [i \in 1..Len(d) |-> IF d[i][1] = k THEN <<k, v>> ELSE d[i]]
    ELSE Append(d, <<k, v>>)

RECURSIVE DictUpdate(_, _)
DictUpdate(d, items) ==
    IF items = <<>> THEN d
    ELSE DictUpdate(DictSet(d, Head(items)[1], Head(items)[2]), Tail(items))

\* lines 46-50: the value stored for one outcome
OutcomeText(id, outcome) ==
    IF outcome.kind = "exc"
    THEN <<"[", id, " error: ", outcome.msg, "]">>
    ELSE outcome.text

RECURSIVE GatherFrom(_, _, _, _)
GatherFrom(ids, calls, positions, d) ==
    IF positions = <<>> THEN d
    ELSE LET i == Head(positions)
         IN  GatherFrom(ids, calls, Tail(positions),
                        DictSet(d, ids[i], OutcomeText(ids[i], calls[i].outcome)))

\* C4 mutant: the results are stored as the coroutines complete
GatherResultsAsCompleted(ids, calls, order) == GatherFrom(ids, calls, order, <<>>)

\* C3 mutant: the function returns from inside the loop, after one entry
GatherResultsFirstOnly(ids, calls, order) == GatherFrom(ids, calls, <<1>>, <<>>)

\* lines 42-51: gather returns the outcomes in the order of the tasks, and
\* the dict is filled in the order of agent_ids
GatherResults(ids, calls, order) ==
    GatherFrom(ids, calls, [i \in 1..Len(ids) |-> i], <<>>)

(***************************************************************************)
(* Financial branch and merger  (src/repo-api/src/agents/orchestrator.py)  *)
(***************************************************************************)
\* decisions the branch is run with: route_query's, over FanIds
FanDecisions ==
    {[agents |-> a, strategy |-> s] :
        a \in SeqsUpTo(FanIds, MaxFan) \ {<<>>}, s \in {"parallel", "sequential"}}

\* line 147: agent_id.replace("-", " ").title()
Header(id) == IF id = "etf-agent" THEN "Etf Agent" ELSE "Portfolio Agent"

Query == "exposure en HY bonds y flujos de ETFs"

RECURSIVE JoinSections(_)
JoinSections(d) ==
    IF d = <<>> THEN <<>>
    ELSE <<"## ", Header(d[1][1]), "\n\n">> \o d[1][2]
            \o (IF Len(d) > 1 THEN <<"\n\n---\n\n">> ELSE <<>>)
            \o JoinSections(Tail(d))

\* lines 143-150
_merge_parallel_results(query, results) ==
    <<"# Multi-Source Financial Analysis\n\nQuery: ", query, "\n\n">>
        \o JoinSections(results)

\* rag_context values the branch is run with: no document, one, two
RagContexts ==
    {<<>>, <<[text |-> <<"HY primer">>, source |-> "a.md"]>>,
     <<[text |-> <<"HY primer">>, source |-> "a.md"],
       [text |-> <<"ETF flows">>, source |-> "b.md"]>>}

\* str(i) for the positions of a rag_context
Decimal == <<"1", "2", "3">>

\* lines 85-87: "\n\n".join(f"[{i+1}] {doc['text']}" ...)
RagText(rag_context) ==
    LET RECURSIVE From(_)
        From(i) == IF i > Len(rag_context) THEN <<>>
                   ELSE (IF i > 1 THEN <<"\n\n">> ELSE <<>>)
                            \o <<"[", Decimal[i], "] ">> \o rag_context[i].text \o From(i + 1)
    IN  From(1)

PreContextMark == "\n\n[Pre-retrieved knowledge base context]\n"

\* C22 mutant: the calls carry the question without the pre-context block
FullQueryBare(query, rag_context) == <<query>>

\* lines 89-91
FullQuery(query, rag_context) ==
    IF RagText(rag_context) # <<>>
    THEN <<query, PreContextMark>> \o RagText(rag_context)
    ELSE <<query>>

\* the events of fTrace: call_agents_parallel_sync(ids, query) is entered,
\* call_agent posts a task with the text query to the worker id, and
\* call_agents_parallel_sync returns
Invoked(ids, query) == [e |-> "invoke", ids |-> ids, query |-> query]
Posted(id, query) == [e |-> "post", id |-> id, query |-> query]
FanReturned == [e |-> "return"]

\* the query argument of the running call_agents_parallel
BatchQuery ==
    fTrace[CHOOSE j \in 1..Len(fTrace) :
              fTrace[j].e = "invoke" /\ \A k \in (j + 1)..Len(fTrace) : fTrace[k].e # "invoke"].query

\* lines 113-116
ResearchText(query, results) ==
    IF Len(results) = 1 THEN results[1][2]
    ELSE _merge_parallel_results(query, results)

Pending == [st |-> "pending"]

FanoutInit ==
    /\ fPc = "idle"
    /\ fDecision = None
    /\ fIdx = 0
    /\ fBatch = <<>>
    /\ fCalls = <<>>
    /\ fOrder = <<>>
    /\ fReturned = <<>>
    /\ fResults = <<>>
    /\ fResearch = <<>>
    /\ fRag = <<>>
    /\ fTrace = <<>>

\* lines 102-111: _run_financial takes the decision and starts the first (or
\* the only) call_agents_parallel_sync
RunFinancial ==
    /\ fPc = "idle"
    /\ \E d \in FanDecisions, rag_context \in RagContexts :
          /\ fDecision' = d
          /\ fRag' = rag_context
          /\ IF d.strategy = "sequential"
             THEN fIdx' = 1 /\ fBatch' = <<d.agents[1]>>
             ELSE fIdx' = 0 /\ fBatch' = d.agents
    /\ fTrace' = <<Invoked(fBatch', FullQuery(Query, fRag'))>>
    /\ fCalls' = [i \in 1..Len(fBatch') |-> Pending]
    /\ fOrder' = <<>>
    /\ fPc' = "calling"
    /\ UNCHANGED <<fReturned, fResults, fResearch>>
    /\ UNCHANGED notFanVars

\* one _call_one coroutine runs to its end: the endpoint is resolved, the
\* task is posted and the exchange ends one way or another
CompleteCall(i) ==
    /\ fPc = "calling"
    /\ i \in 1..Len(fCalls)
    /\ fCalls[i] = Pending
    /\ \E item \in Discoveries(fBatch[i]), x \in Exchanges :
          fCalls' = [fCalls EXCEPT ![i] =
                        [st |-> "done", x |-> x, outcome |-> CallOne(fBatch[i], item, x)]]
    /\ fOrder' = Append(fOrder, i)
    /\ fTrace' = Append(fTrace, Posted(fBatch[i], BatchQuery))
    /\ UNCHANGED <<fPc, fDecision, fIdx, fBatch, fReturned, fResults, fResearch, fRag>>
    /\ UNCHANGED notFanVars

AllDone == \A i \in 1..Len(fCalls) : fCalls[i] # Pending

\* gather returns; sequential strategy, more ids to go: results.update and
\* the next call_agents_parallel_sync([agent_id])
NextSequential ==
    /\ fPc = "calling" /\ AllDone
    /\ fDecision.strategy = "sequential"
    /\ fIdx < Len(fDecision.agents)
    /\ fReturned' = GatherResults(fBatch, fCalls, fOrder)
    /\ fResults' = DictUpdate(fResults, fReturned')
    /\ fIdx' = fIdx + 1
    /\ fBatch' = <<fDecision.agents[fIdx + 1]>>
    /\ fCalls' = <<Pending>>
    /\ fOrder' = <<>>
    /\ fTrace' = fTrace \o <<FanReturned, Invoked(fBatch', FullQuery(Query, fRag))>>
    /\ UNCHANGED <<fPc, fDecision, fResearch, fRag>>
    /\ UNCHANGED notFanVars

\* gather returns for the last time: the results are merged (lines 113-118)
Finish ==
    /\ fPc = "calling" /\ AllDone
    /\ fDecision.strategy = "sequential" => fIdx = Len(fDecision.agents)
    /\ fReturned' = GatherResults(fBatch, fCalls, fOrder)
    /\ fResults' = IF fDecision.strategy = "sequential"
                   THEN DictUpdate(fResults, fReturned')
                   ELSE fReturned'
    /\ fResearch' = ResearchText(Query, fResults')
    /\ fPc' = "done"
    /\ fTrace' = Append(fTrace, FanReturned)
    /\ UNCHANGED <<fDecision, fIdx, fBatch, fCalls, fOrder, fRag>>
    /\ UNCHANGED notFanVars

FanoutNext ==
    \/ RunFinancial
    \/ \E i \in 1..MaxFan : CompleteCall(i)
    \/ NextSequential
    \/ Finish

(***************************************************************************)
(* Pipeline  (src/src/graph/nodes.py, src/src/graph/workflow.py)           *)
(*                                                                         *)
(* An Optional value is None or Some(v).  A node returns an update: a      *)
(* function from the fields it sets to their new values, which the graph   *)
(* merges into the state.                                                  *)
(***************************************************************************)
Some(v) == [kind |-> "some", v |-> v]

\* Python's truth value of an Optional[str] or Optional[list]
Truthy(x) == x.kind = "some" /\ x.v # <<>>

\* x or default
OrElse(x, default) == IF Truthy(x) THEN x.v ELSE default

\* the pieces str.strip removes
Whitespace == {" ", "\n", "\n\n"}

\* str.strip
Strip(s) ==
    LET keep == {i \in 1..Len(s) : s[i] \notin Whitespace}
    IN  IF keep = {} THEN <<>>
        ELSE SubSeq(s, CHOOSE i \in keep : \A j \in keep : i <= j,
                       CHOOSE i \in keep : \A j \in keep : i >= j)

EmptyUpdate == [f \in {} |-> None]

\* the graph merges the update of a node into the state
Merge(state, update) ==
    [f \in DOMAIN state |-> IF f \in DOMAIN update THEN update[f] ELSE state[f]]

\* workflow.py lines 62-69
InitialState(query) ==
    [query |-> Some(query), rag_context |-> None, research |-> None,
     synthesis |-> None, final_response |-> None, error |-> None]

\* nodes.py lines 20-28
intake_node(state) ==
    LET query == Strip(OrElse(state.query, <<>>))
    IN  IF query = <<>>
        THEN [error |-> Some(<<"Empty query received.">>),
              final_response |-> Some(<<"Please provide a question.">>)]
        ELSE [query |-> Some(query), error |-> None]

\* what get_retriever().retrieve(query) does: it returns documents, or an
\* exception with the message msg leaves it
Doc(text, source) == [text |-> text, source |-> source]
RetrieverOutcomes ==
    {[kind |-> "docs", docs |-> d] :
        d \in {<<>>, <<Doc("t1", "")>>, <<Doc("t1", "b.md"), Doc("t2", "a.md")>>,
               <<Doc("t1", "a.md"), Doc("t2", "a.md")>>}}
        \cup {[kind |-> "raise", msg |-> m] : m \in {<<>>, <<"index down">>}}

\* C12 mutant: retrieve_node without the check of error
retrieve_nodeNoSkip(state, retr) ==
    IF retr.kind = "docs" THEN [rag_context |-> Some(retr.docs)]
    ELSE [error |-> Some(<<"RAG retrieval failed: ">> \o retr.msg),
          rag_context |-> Some(<<>>)]

\* nodes.py lines 33-46
retrieve_node(state, retr) ==
    IF Truthy(state.error) THEN EmptyUpdate
    ELSE IF retr.kind = "docs" THEN [rag_context |-> Some(retr.docs)]
    ELSE [error |-> Some(<<"RAG retrieval failed: ">> \o retr.msg),
          rag_context |-> Some(<<>>)]

\* what run_strands_orchestrator does: it returns an OrchestratorResult whose
\* research and synthesis are str(...) of the agents' answers, or an
\* exception with the message msg leaves it
OrchestratorOutcomes ==
    {[kind |-> "result", research |-> <<"findings">>, synthesis |-> syn] :
        syn \in {<<>>, <<"y">>, <<"y", "e", "s", "!">>}}
        \cup {[kind |-> "raise", msg |-> m] : m \in {<<>>, <<"no model">>}}

\* traceback.format_exc()
Traceback == <<"Traceback (most recent call last): ...">>

\* nodes.py lines 51-72
strands_node(state, orch) ==
    IF Truthy(state.error) THEN EmptyUpdate
    ELSE IF orch.kind = "result"
    THEN [research |-> Some(orch.research), synthesis |-> Some(orch.synthesis)]
    ELSE [error |-> Some(<<"Strands agents failed: ">> \o orch.msg \o <<"\n">> \o Traceback)]

\* sorted(...) of source names: their order
SourceOrder == <<"a.md", "b.md">>
SortedSources(S) == SelectSeq(SourceOrder, LAMBDA x : x \in S)

RECURSIVE JoinWith(_, _)
JoinWith(sep, items) ==
    IF items = <<>> THEN <<>>
    ELSE IF Len(items) = 1 THEN <<items[1]>>
    ELSE <<items[1], sep>> \o JoinWith(sep, Tail(items))

\* C11 mutant: format_node leaves a final_response that is already set
format_nodeKeepsResponse(state) ==
    IF Truthy(state.error)
    THEN [kind |-> "return",
          update |-> [final_response |->
                        IF state.final_response.kind = "some" THEN state.final_response
                        ELSE Some(<<"Error: ">> \o state.error.v)]]
    ELSE [kind |-> "return",
          update |-> [final_response |-> Some(OrElse(state.synthesis, <<>>))]]

\* nodes.py lines 77-93; the synthesis is a string whenever error is not set
\* (strands_node has run and set it), None + str raises a TypeError
format_node(state) ==
    IF Truthy(state.error)
    THEN [kind |-> "return",
          update |-> [final_response |-> Some(<<"Error: ">> \o state.error.v)]]
    ELSE IF state.synthesis.kind = "none" THEN [kind |-> "raise"]
    ELSE LET rag_context == OrElse(state.rag_context, <<>>)
             unique_sources ==
                 SortedSources({rag_context[i].source : i \in 1..Len(rag_context)} \ {""})
             sources_block ==
                 IF unique_sources = <<>> THEN <<>>
                 ELSE <<"\n\n---\n**Sources:** ">> \o JoinWith(" | ", unique_sources)
         IN  [kind |-> "return",
              update |-> [final_response |-> Some(state.synthesis.v \o sources_block)]]

\* C19 mutant: the graph ends after strands
NextNodeNoFormat(node) ==
    CASE node = "START" -> "intake" [] node = "intake" -> "retrieve"
      [] node = "retrieve" -> "strands" [] node = "strands" -> "end"
      [] node = "format" -> "end"

\* workflow.py lines 28-32: the node after each node
NextNode(node) ==
    CASE node = "START" -> "intake" [] node = "intake" -> "retrieve"
      [] node = "retrieve" -> "strands" [] node = "strands" -> "format"
      [] node = "format" -> "end"

\* workflow.py lines 50-74: the final state of graph.invoke, or "raise"
run_query(query, retr, orch) ==
    LET s0 == InitialState(query)
        s1 == Merge(s0, intake_node(s0))
        s2 == Merge(s1, retrieve_node(s1, retr))
        s3 == Merge(s2, strands_node(s2, orch))
        f  == format_node(s3)
    IN  IF f.kind = "raise" THEN [kind |-> "raise"]
        ELSE [kind |-> "return", state |-> Merge(s3, f.update)]

\* the queries run_query is called with
PipelineQueries ==
    {<<>>, <<" ">>, <<" ", "\n">>, <<"a", "b", "c">>, <<" ", "a", " ", "b", " ">>,
     <<"\n", "hy"," ", "desk">>}

NoOutcome == [kind |-> "none"]

PipelineOff ==
    /\ pPc = "idle"
    /\ pState = InitialState(<<>>)
    /\ pRetr = NoOutcome
    /\ pOrch = NoOutcome
    /\ pTrace = <<>>
    /\ pLast = EmptyUpdate

\* workflow.py lines 61-74: run_query builds the initial state and invokes
\* the graph
Invoke ==
    /\ pPc = "idle"
    /\ \E query \in PipelineQueries : pState' = InitialState(query)
    /\ pPc' = NextNode("START")
    /\ UNCHANGED <<pRetr, pOrch, pTrace, pLast>>
    /\ UNCHANGED notPipeVars

Intake ==
    /\ pPc = "intake"
    /\ pLast' = intake_node(pState)
    /\ pState' = Merge(pState, pLast')
    /\ pTrace' = Append(pTrace, "intake")
    /\ pPc' = NextNode("intake")
    /\ UNCHANGED <<pRetr, pOrch>>
    /\ UNCHANGED notPipeVars

\* the retriever is called only when error is not set
Retrieve ==
    /\ pPc = "retrieve"
    /\ \E retr \in RetrieverOutcomes :
          /\ pRetr' = IF Truthy(pState.error) THEN NoOutcome ELSE retr
          /\ pLast' = retrieve_node(pState, retr)
    /\ pState' = Merge(pState, pLast')
    /\ pTrace' = Append(pTrace, "retrieve")
    /\ pPc' = NextNode("retrieve")
    /\ UNCHANGED pOrch
    /\ UNCHANGED notPipeVars

\* the orchestrator is called only when error is not set
Strands ==
    /\ pPc = "strands"
    /\ \E orch \in OrchestratorOutcomes :
          /\ pOrch' = IF Truthy(pState.error) THEN NoOutcome ELSE orch
          /\ pLast' = strands_node(pState, orch)
    /\ pState' = Merge(pState, pLast')
    /\ pTrace' = Append(pTrace, "strands")
    /\ pPc' = NextNode("strands")
    /\ UNCHANGED pRetr
    /\ UNCHANGED notPipeVars

Format ==
    /\ pPc = "format"
    /\ LET f == format_node(pState)
       IN  IF f.kind = "raise"
           THEN /\ pPc' = "raised"
                /\ UNCHANGED <<pState, pTrace, pLast>>
           ELSE /\ pLast' = f.update
                /\ pState' = Merge(pState, f.update)
                /\ pTrace' = Append(pTrace, "format")
                /\ pPc' = NextNode("format")
    /\ UNCHANGED <<pRetr, pOrch>>
    /\ UNCHANGED notPipeVars

PipelineNext ==
    \/ Invoke
    \/ Intake
    \/ Retrieve
    \/ Strands
    \/ Format

(***************************************************************************)
(* Registry and worker service                                             *)
(* (src/repo-api/src/a2a/registry.py, src/repo-api/src/services/           *)
(*  base_service.py, src/src/a2a/models.py)                                *)
(*                                                                         *)
(* The table deletes an item some time after its ttl has passed (the       *)
(* action TableExpire); until then a read returns it.                      *)
(***************************************************************************)
\* registry.py line 26
_TTL_SECONDS == 120

\* what the clock advances by
TickSteps == {60}

\* the worker modelled, and an agent whose row another team writes
WorkerId == "etf-agent"
TeamId == "team-agent"
RegIds == {WorkerId, TeamId}

NoItem == [row |-> FALSE, status |-> "", endpoint |-> "", ttl |-> 0]

\* the exceptions a call of the table raises when the backend is down
RegistryFaults == {"ClientError", "BotoCoreError", "Exception"}

\* registry.py lines 52-62: the item register_agent puts
RegistrationItem(id, endpoint, t) ==
    [row |-> TRUE, status |-> "healthy", endpoint |-> endpoint, ttl |-> t + _TTL_SECONDS]

\* C18 mutant: the exception of put_item is swallowed but the healthy
\* status is not written
register_agentNoStatus(table, id, endpoint, t, fault) ==
    IF fault # "ok" THEN table
    ELSE [table EXCEPT ![id] = [RegistrationItem(id, endpoint, t) EXCEPT !.status = ""]]

\* registry.py lines 37-64: the table after register_agent; every exception
\* is swallowed
register_agent(table, id, endpoint, t, fault) ==
    IF fault # "ok" THEN table
    ELSE [table EXCEPT ![id] = RegistrationItem(id, endpoint, t)]

\* registry.py lines 67-72: the table after deregister_agent
deregister_agent(table, id, fault) ==
    IF fault # "ok" THEN table ELSE [table EXCEPT ![id] = NoItem]

\* registry.py lines 75-87: the item, or None (NoItem) when there is no
\* item or the call raised
discover_agent(table, id, fault) ==
    IF fault # "ok" THEN NoItem ELSE table[id]

\* the fault of a call made now
FaultsNow == IF regUp THEN {"ok"} ELSE RegistryFaults

(***************************************************************************)
(* POST /a2a  (base_service.py lines 106-124)                              *)
(***************************************************************************)
\* A2ATask: id and message.parts (the texts)
Tasks ==
    {[id |-> i, parts |-> ps] :
        i \in {"t-1", "t-2"}, ps \in {<<>>, <<"q1", "q2">>}}

\* what handle_task(query) does: it returns a text or raises
HandlerOutcomes ==
    {[kind |-> "return", text |-> "answer"], [kind |-> "return", text |-> ""],
     [kind |-> "raise", msg |-> "kdb down"]}

\* C17 mutant: the whole message is handed to the handler, joined
a2aQueryAllParts(task) == task.parts

\* base_service.py line 111: the query handed to the handler
a2aQuery(task) == task.parts[1]

\* base_service.py lines 106-124: the answer to a task, given what the
\* handler does with the query: an HTTP error, or an A2AResult
a2a(task, outcome) ==
    IF task.parts = <<>>
    THEN [kind |-> "http_error", status_code |-> 400, handled |-> <<>>]
    ELSE IF outcome.kind = "return"
    THEN [kind |-> "result", handled |-> <<a2aQuery(task)>>,
          result |-> [id |-> task.id, status |-> "completed",
                      artifacts |-> << <<outcome.text>> >>, error |-> None]]
    ELSE [kind |-> "result", handled |-> <<a2aQuery(task)>>,
          result |-> [id |-> task.id, status |-> "failed",
                      artifacts |-> <<>>, error |-> Some(outcome.msg)]]

NoLookup == [kind |-> "none"]
NoExchange == [kind |-> "none"]

WorkerOff ==
    /\ regTable = [id \in RegIds |-> NoItem]
    /\ regUp = TRUE
    /\ now = 0
    /\ wState = "down"
    /\ wStartReg = "none"
    /\ wDereg = "none"
    /\ resolved = NoLookup
    /\ a2aLast = NoExchange

WorkerInit ==
    /\ regTable = [id \in RegIds |-> NoItem]
    /\ regUp \in BOOLEAN
    /\ now = 0
    /\ wState = "down"
    /\ wStartReg = "none"
    /\ wDereg = "none"
    /\ resolved = NoLookup
    /\ a2aLast = NoExchange

\* base_service.py lines 69-79: startup; the registration is best effort
Startup ==
    /\ wState = "down"
    /\ wState' = "running"
    /\ \E fault \in FaultsNow :
          /\ regTable' = register_agent(regTable, WorkerId, RegisteredUrl(WorkerId), now, fault)
          /\ wStartReg' = IF fault = "ok" THEN "ok" ELSE "failed"
    /\ UNCHANGED <<regUp, now, wDereg, resolved, a2aLast>>
    /\ UNCHANGED notWorkerVars

\* base_service.py lines 96-100: GET /health registers again
Health ==
    /\ wState = "running"
    /\ \E fault \in FaultsNow :
          regTable' = register_agent(regTable, WorkerId, RegisteredUrl(WorkerId), now, fault)
    /\ UNCHANGED <<regUp, now, wState, wStartReg, wDereg, resolved, a2aLast>>
    /\ UNCHANGED notWorkerVars

\* base_service.py lines 80-84: shutdown; the deregistration is best effort
Shutdown ==
    /\ wState = "running"
    /\ wState' = "stopped"
    /\ \E fault \in FaultsNow :
          /\ regTable' = deregister_agent(regTable, WorkerId, fault)
          /\ wDereg' = IF fault = "ok" THEN "ok" ELSE "failed"
    /\ UNCHANGED <<wStartReg, regUp, now, resolved, a2aLast>>
    /\ UNCHANGED notWorkerVars

\* the process dies: no shutdown code runs
Crash ==
    /\ wState = "running"
    /\ wState' = "crashed"
    /\ UNCHANGED <<regTable, regUp, now, wStartReg, wDereg, resolved, a2aLast>>
    /\ UNCHANGED notWorkerVars

\* base_service.py lines 106-124
PostTask ==
    /\ wState = "running"
    /\ \E task \in Tasks, outcome \in HandlerOutcomes :
          a2aLast' = [kind |-> "done", task |-> task, answer |-> a2a(task, outcome),
                      outcome |-> IF task.parts = <<>> THEN "none" ELSE outcome.kind]
    /\ UNCHANGED <<regTable, regUp, now, wState, wStartReg, wDereg, resolved>>
    /\ UNCHANGED notWorkerVars

\* parallel_client.py line 37 with registry.py lines 90-99: a caller
\* resolves the URL of an agent
Resolve ==
    /\ \E id \in RegIds, fault \in FaultsNow :
          resolved' = [kind |-> "done", id |-> id, fallback |-> get_agent_url(id),
                       fault |-> fault, item |-> [regTable[id] EXCEPT !.ttl = 0],
                       expired |-> regTable[id].row /\ regTable[id].ttl <= now,
                       url |-> get_endpoint(discover_agent(regTable, id, fault),
                                            get_agent_url(id))]
    /\ UNCHANGED <<regTable, regUp, now, wState, wStartReg, wDereg, a2aLast>>
    /\ UNCHANGED notWorkerVars

\* data_stack.py lines 75-78: another team writes the record of its agent;
\* the record has no ttl attribute (ttl 0) and is never swept
TeamWrite ==
    /\ regUp
    /\ \E status \in {"healthy", "draining"} :
          regTable' = [regTable EXCEPT ![TeamId] =
                          [row |-> TRUE, status |-> status,
                           endpoint |-> RegisteredUrl(TeamId), ttl |-> 0]]
    /\ UNCHANGED <<regUp, now, wState, wStartReg, wDereg, resolved, a2aLast>>
    /\ UNCHANGED notWorkerVars

\* the backend becomes unavailable, or available again
BackendFlip ==
    /\ regUp' = ~regUp
    /\ UNCHANGED <<regTable, now, wState, wStartReg, wDereg, resolved, a2aLast>>
    /\ UNCHANGED notWorkerVars

Tick ==
    /\ \E d \in TickSteps :
          /\ now + d <= MaxTicks * 60
          /\ now' = now + d
    /\ UNCHANGED <<regTable, regUp, wState, wStartReg, wDereg, resolved, a2aLast>>
    /\ UNCHANGED notWorkerVars

\* the table's TTL sweep deletes an item whose ttl has passed
TableExpire(id) ==
    /\ regTable[id].row
    /\ regTable[id].ttl > 0
    /\ regTable[id].ttl <= now
    /\ regTable' = [regTable EXCEPT ![id] = NoItem]
    /\ UNCHANGED <<regUp, now, wState, wStartReg, wDereg, resolved, a2aLast>>
    /\ UNCHANGED notWorkerVars

WorkerNext ==
    \/ Startup
    \/ Health
    \/ Shutdown
    \/ Crash
    \/ PostTask
    \/ Resolve
    \/ TeamWrite
    \/ BackendFlip
    \/ Tick
    \/ \E id \in RegIds : TableExpire(id)

(***************************************************************************)
(* Worker pool of the gateway and the compiled graph                       *)
(* (src/repo-api/src/api/server.py, src/src/graph/workflow.py)             *)
(*                                                                         *)
(* The handler of a chat request hands _run_agent to the executor and      *)
(* awaits it, then hands save_session to the same executor without         *)
(* awaiting it, and returns the response.  The executor keeps the tasks in *)
(* a queue; each of its threads takes the first task of the queue, runs it *)
(* to its end and takes the next.  _run_agent runs run_query, which calls  *)
(* get_graph: the threads read and write the global _compiled_graph one    *)
(* statement at a time.  A compiled graph is named by the number of the    *)
(* build_graph call that made it; NoGraph is None.                         *)
(***************************************************************************)
PoolThreads == 1..MaxWorkers
PoolRequests == 1..MaxPoolRequests
NoGraph == [kind |-> "none"]
Graph(n) == [kind |-> "graph", n |-> n]
FreeSlot == [kind |-> "free"]

\* the task a thread runs: its function, the request it belongs to, the
\* statement it is at, and the locals of get_graph / run_query
Task(kind, r) == [kind |-> kind, r |-> r]
Running(task) ==
    [kind |-> task.kind, r |-> task.r,
     at |-> IF task.kind = "pipeline" THEN "test" ELSE "save",
     built |-> NoGraph, graph |-> NoGraph]

PoolInit ==
    /\ hPc = [r \in PoolRequests |-> "new"]
    /\ queue = <<>>
    /\ slot = [w \in PoolThreads |-> FreeSlot]
    /\ _compiled_graph = NoGraph
    /\ builds = 0
    /\ used = {}

\* server.py lines 195-236: the handler runs up to the await of the
\* pipeline; run_in_executor puts the task in the executor's queue
Arrive(r) ==
    /\ hPc[r] = "new"
    /\ hPc' = [hPc EXCEPT ![r] = "awaiting"]
    /\ queue' = Append(queue, Task("pipeline", r))
    /\ UNCHANGED <<slot, _compiled_graph, builds, used>>
    /\ UNCHANGED notPoolVars

\* an idle thread of the executor takes the first task of the queue
Take(w) ==
    /\ slot[w] = FreeSlot
    /\ queue # <<>>
    /\ slot' = [slot EXCEPT ![w] = Running(Head(queue))]
    /\ queue' = Tail(queue)
    /\ UNCHANGED <<hPc, _compiled_graph, builds, used>>
    /\ UNCHANGED notPoolVars

\* workflow.py line 45: if _compiled_graph is None
GraphTest(w) ==
    /\ slot[w].kind = "pipeline" /\ slot[w].at = "test"
    /\ slot' = [slot EXCEPT ![w].at = IF _compiled_graph = NoGraph THEN "build" ELSE "return"]
    /\ UNCHANGED <<hPc, queue, _compiled_graph, builds, used>>
    /\ UNCHANGED notPoolVars

\* workflow.py line 46, right-hand side: build_graph() compiles a new graph
GraphBuild(w) ==
    /\ slot[w].kind = "pipeline" /\ slot[w].at = "build"
    /\ builds' = builds + 1
    /\ slot' = [slot EXCEPT ![w].at = "assign", ![w].built = Graph(builds + 1)]
    /\ UNCHANGED <<hPc, queue, _compiled_graph, used>>
    /\ UNCHANGED notPoolVars

\* workflow.py line 46: the assignment to the global
GraphAssign(w) ==
    /\ slot[w].kind = "pipeline" /\ slot[w].at = "assign"
    /\ _compiled_graph' = slot[w].built
    /\ slot' = [slot EXCEPT ![w].at = "return"]
    /\ UNCHANGED <<hPc, queue, builds, used>>
    /\ UNCHANGED notPoolVars

\* workflow.py lines 47 and 61: return _compiled_graph; graph = get_graph()
GraphReturn(w) ==
    /\ slot[w].kind = "pipeline" /\ slot[w].at = "return"
    /\ slot' = [slot EXCEPT ![w].at = "invoke", ![w].graph = _compiled_graph]
    /\ UNCHANGED <<hPc, queue, _compiled_graph, builds, used>>
    /\ UNCHANGED notPoolVars

\* workflow.py line 74 and server.py lines 100-101: graph.invoke returns and
\* the task ends; the future of the handler is done
GraphInvoke(w) ==
    /\ slot[w].kind = "pipeline" /\ slot[w].at = "invoke"
    /\ used' = used \cup {slot[w].graph}
    /\ hPc' = [hPc EXCEPT ![slot[w].r] = "resumed"]
    /\ slot' = [slot EXCEPT ![w] = FreeSlot]
    /\ UNCHANGED <<queue, _compiled_graph, builds>>
    /\ UNCHANGED notPoolVars

\* server.py lines 239-256: the handler goes on after the await: it hands
\* save_session to the executor and returns the response
Deliver(r) ==
    /\ hPc[r] = "resumed"
    /\ queue' = Append(queue, Task("save", r))
    /\ hPc' = [hPc EXCEPT ![r] = "responded"]
    /\ UNCHANGED <<slot, _compiled_graph, builds, used>>
    /\ UNCHANGED notPoolVars

\* sessions.py lines 178-212: save_session returns (saved, or the failure
\* was logged) or an exception ends it; until then its thread is taken
SaveEnds(w) ==
    /\ slot[w].kind = "save"
    /\ slot' = [slot EXCEPT ![w] = FreeSlot]
    /\ UNCHANGED <<hPc, queue, _compiled_graph, builds, used>>
    /\ UNCHANGED notPoolVars

PoolNext ==
    \/ \E r \in PoolRequests : Arrive(r)
    \/ \E w \in PoolThreads : Take(w)
    \/ \E w \in PoolThreads : GraphTest(w)
    \/ \E w \in PoolThreads : GraphBuild(w)
    \/ \E w \in PoolThreads : GraphAssign(w)
    \/ \E w \in PoolThreads : GraphReturn(w)
    \/ \E w \in PoolThreads : GraphInvoke(w)
    \/ \E r \in PoolRequests : Deliver(r)
    \/ \E w \in PoolThreads : SaveEnds(w)

(***************************************************************************)
(* Session store  (src/repo-api/src/api/sessions.py)                       *)
(*                                                                         *)
(* A message content is a sequence of characters.  The timestamps and the  *)
(* ttl attribute of an item are not modelled; the deletion of an expired   *)
(* item by the table is the action Expire.                                 *)
(***************************************************************************)
\* the character _truncate appends (U+2026)
Ellipsis == "(ellipsis)"

\* an id a client made up, and the ids uuid4 yields, in the order of minting
ClientId == "c-1"
MintIds == <<"sess-0a", "sess-0b", "sess-0c", "sess-0d", "sess-0e", "sess-0f">>
SessionIds == {ClientId} \cup {MintIds[i] : i \in 1..(MaxRequests + 1)}

NoRow == [present |-> FALSE]

\* what a call of the table does: it works, or boto3 raises a ClientError
\* (an error answer of the service), or a BotoCoreError (no connection, no
\* credentials; not a ClientError)
Faults == {"ok", "ClientError", "BotoCoreError"}

\* values of SESSION_MAX_MESSAGES the service is configured with: none, a
\* window of MaxMessagesCfg entries, and one of twice as many
MessagesCfgs == {0, MaxMessagesCfg, 2 * MaxMessagesCfg}

\* values of SESSION_MAX_MSG_CHARS the service is configured with
CharsCfgs == {2}

\* the "user" field of the requests: a string is a sequence of pieces, and
\* the empty string is <<>>
Users == {<<>>}

\* the "desk_name" field of the requests
Desks == {""}

\* the requests of traders who give their id and, some of them, their desk
TraderUsers == {<<>>, <<"t_", "hy", "_001">>}
TraderDesks == {"", "IG"}
TraderTexts == {<<"a", "b", "c">>}

\* the last user message of a request (none: <<>>; <<" ">> is whitespace
\* only), and the answers of the synthesizer
UserTexts == {<<>>, <<" ">>, <<"a", "b", "c">>}
AssistantTexts == {<<"y", "e", "s", "!">>}

\* str.upper on the pieces of a user id
UpperPiece(p) ==
    CASE p = "t_" -> "T_" [] p = "hy" -> "HY" [] p = "ig" -> "IG"
      [] p = "em" -> "EM" [] p = "rates" -> "RATES" [] OTHER -> p
Upper(s) == [i \in 1..Len(s) |-> UpperPiece(s[i])]
StartsWith(s, prefix) ==
    Len(s) >= Len(prefix) /\ SubSeq(s, 1, Len(prefix)) = prefix

\* lines 65-70: prefix of the trader id, desk
_DESK_MAP ==
    << <<(<<"T_", "HY">>), "HY">>, <<(<<"T_", "IG">>), "IG">>,
       <<(<<"T_", "EM">>), "EM">>, <<(<<"T_", "RATES">>), "RATES">> >>

\* lines 84-89: the desk of the first prefix that matches
_derive_desk(user_id) ==
    LET hits == {i \in 1..Len(_DESK_MAP) : StartsWith(Upper(user_id), _DESK_MAP[i][1])}
    IN  IF hits = {} THEN "GENERAL"
        ELSE _DESK_MAP[CHOOSE i \in hits : \A j \in hits : i <= j][2]

\* lines 92-96
_derive_role(user_id) ==
    IF StartsWith(Upper(user_id), <<"T_">>) THEN "business" ELSE "technical"

\* lines 107-110
_truncate(text, max_chars) ==
    IF Len(text) <= max_chars THEN text
    ELSE SubSeq(text, 1, max_chars) \o <<Ellipsis>>

\* Python's seq[-n:] for 0 <= n <= len(seq): -0 is 0, so seq[-0:] is seq
LastN(seq, n) ==
    IF n = 0 THEN seq ELSE SubSeq(seq, Len(seq) - n + 1, Len(seq))

\* lines 186-188
Rotate(current, max_messages) ==
    IF Len(current) > max_messages THEN LastN(current, max_messages) ELSE current

Msg(role, content) == [role |-> role, content |-> content]

\* lines 183-188: the log save_session writes
NewLog(current, new_user_message, assistant_response, max_messages, max_chars) ==
    Rotate(current \o <<Msg("user", _truncate(new_user_message, max_chars)),
                        Msg("assistant", _truncate(assistant_response, max_chars))>>,
           max_messages)

\* lines 126-136: the item create_session puts
NewItem(user_id, desk_name) ==
    [present       |-> TRUE,
     user_id       |-> IF user_id = <<>> THEN <<"anonymous">> ELSE user_id,
     desk_name     |-> IF desk_name = "" THEN _derive_desk(user_id) ELSE desk_name,
     user_role     |-> _derive_role(user_id),
     messages      |-> <<>>,
     message_count |-> 0]

\* C6 mutant: the counter is written from the log that was read
UpdatedCountFromLog(item, msgs) == Len(msgs) \div 2

\* line 197: message_count = message_count + :inc
UpdatedCount(item, msgs) == item.message_count + 1

\* DynamoDB's if_not_exists(attr, value): the attribute of the item when
\* the item has it, whatever it holds, else value
if_not_exists(item, attr, value) ==
    IF attr \in DOMAIN item THEN item[attr] ELSE value

\* C21 mutant: the update writes the log and leaves the counter
UpdatedItemNoIncrement(item, msgs, user_id, desk_name) ==
    [item EXCEPT !.messages = msgs]

\* lines 190-210: the item after update_item
UpdatedItem(item, msgs, user_id, desk_name) ==
    LET uid  == IF user_id = <<>> THEN <<"anonymous">> ELSE user_id
        desk == IF desk_name = "" THEN _derive_desk(user_id) ELSE desk_name
    IN  [item EXCEPT !.messages = msgs,
                     !.message_count = UpdatedCount(item, msgs),
                     !.user_id = if_not_exists(item, "user_id", uid),
                     !.desk_name = if_not_exists(item, "desk_name", desk)]

\* lines 150-161: load_session; "raise" when the fault is no ClientError
load_session(item, fault) ==
    IF fault = "BotoCoreError" THEN [kind |-> "raise"]
    ELSE IF fault = "ClientError" \/ item = NoRow THEN [kind |-> "return", value |-> <<>>]
    ELSE [kind |-> "return", value |-> item.messages]

(***************************************************************************)
(* Chat gateway  (src/repo-api/src/api/server.py)                          *)
(***************************************************************************)
NoRequest ==
    [pc |-> "new", session_id |-> "", user_message |-> <<>>, user_id |-> <<>>,
     desk_name |-> "", route |-> "none",
     prior |-> {}, history |-> <<>>, enriched_query |-> <<>>, seq |-> 0,
     content |-> <<>>, response |-> None, save |-> "none", current |-> <<>>]

\* sessions.py lines 215-237
\* the header line, in two pieces; (U+2014) stands for the dash of the source
HistoryHeader == <<"[Conversation History", " (U+2014) previous turns in this session]">>
RECURSIVE ContextLines(_)
ContextLines(messages) ==
    IF messages = <<>> THEN <<>>
    ELSE <<"\n", IF messages[1].role = "user" THEN "Trader: " ELSE "System: ">>
            \o messages[1].content \o ContextLines(Tail(messages))
\* C15 mutant: only the user's messages are rendered
build_context_stringUserOnly(messages) ==
    IF messages = <<>> THEN <<>>
    ELSE HistoryHeader \o ContextLines(SelectSeq(messages, LAMBDA m : m.role = "user"))

build_context_string(messages) ==
    IF messages = <<>> THEN <<>> ELSE HistoryHeader \o ContextLines(messages)

\* server.py lines 228-232
CurrentQueryMark == "\n\n[Current Query]\n"
EnrichedQuery(history, user_message) ==
    LET context_str == build_context_string(history)
    IN  IF context_str # <<>> THEN context_str \o <<CurrentQueryMark>> \o user_message
        ELSE user_message

\* what the retriever and the orchestrator do in the runs the gateway starts
GatewayRetrieverOutcomes == {[kind |-> "docs", docs |-> <<>>]}
GatewayOrchestratorOutcomes ==
    {[kind |-> "result", research |-> <<"findings">>, synthesis |-> t] :
        t \in AssistantTexts}

\* server.py lines 97-101
_run_agent(query, retr, orch) ==
    OrElse(run_query(query, retr, orch).state.final_response,
           <<"No response generated.">>)

\* orchestrator.py lines 23-38
_FINANCIAL_KEYWORDS ==
    {"bond", "rfq", "trader", "trading", "desk", "hy", "ig", "em", "rates",
     "spread", "bps", "basis point", "hit rate", "notional", "yield", "coupon",
     "isin", "cusip", "position", "order",
     "live", "real-time", "realtime", "current price", "market data", "market-data",
     "bid", "ask", "mid price", "quote", "pnl", "mark to market", "mtm",
     "intraday", "today", "right now", "current position",
     "amps", "sow", "subscribe", "pub/sub", "topic", "publish", "state of world",
     "kdb", "historical", "history", "6 month", "last month", "last quarter",
     "best trader", "top trader", "strategy", "performance"}

\* the pieces of the queries of this model whose lower-case text has a
\* keyword as a substring, each with one such keyword ("System: " and
\* "Empty query received." hold "em"); in no query of the model does a
\* keyword lie across two pieces
KeywordIn ==
    { <<"[Conversation History", "history">>, <<"Trader: ", "trader">>,
      <<"System: ", "em">>, <<"Empty query received.", "em">>,
      <<"hy", "hy">>, <<"desk", "desk">> }

\* orchestrator.py lines 41-44: any(kw in q_lower for kw in _FINANCIAL_KEYWORDS)
_is_financial_query(query) ==
    \E kw \in _FINANCIAL_KEYWORDS : \E i \in 1..Len(query) : <<query[i], kw>> \in KeywordIn

\* nodes.py lines 20-69 and orchestrator.py lines 66-68: the branch
\* run_strands_orchestrator takes for a query handed to run_query, "none"
\* when strands_node does not call it
DispatchBranch(query, retr) ==
    LET s0 == InitialState(query)
        s1 == Merge(s0, intake_node(s0))
        s2 == Merge(s1, retrieve_node(s1, retr))
    IN  IF Truthy(s2.error) THEN "none"
        ELSE IF _is_financial_query(s2.query.v) THEN "financial"
        ELSE "general"

\* session_id values a client can send: none, a made-up one, or one a
\* response gave it
ClientSessionIds ==
    {"", ClientId}
        \cup {reqs[r].response.session_id : r \in {q \in 1..nReq : reqs[q].pc = "responded"}}

SessionInit ==
    /\ MAX_MESSAGES \in MessagesCfgs
    /\ MAX_MSG_CHARS \in CharsCfgs
    /\ store = [s \in SessionIds |-> NoRow]
    /\ minted = 0
    /\ nReq = 0
    /\ reqs = [r \in 1..MaxRequests |-> NoRequest]
    /\ okTurns = [s \in SessionIds |-> 0]

\* the session store and the gateway at rest, for the specifications that do
\* not run them
SessionOff ==
    /\ MAX_MESSAGES = 20
    /\ MAX_MSG_CHARS = 1000
    /\ store = [s \in SessionIds |-> NoRow]
    /\ minted = 0
    /\ nReq = 0
    /\ reqs = [r \in 1..MaxRequests |-> NoRequest]
    /\ okTurns = [s \in SessionIds |-> 0]

Response(content, session_id) == [content |-> content, session_id |-> session_id]

\* server.py lines 203-236 with create_session (sessions.py 115-141) or
\* load_session: the request is received, its session is resolved and the
\* pipeline is handed to the executor; or the handler ends at once (no user
\* message), or an exception leaves it
ReceiveWith(texts, users, desks) ==
    /\ nReq < MaxRequests
    /\ nReq' = nReq + 1
    /\ \E sid \in ClientSessionIds, text \in texts, user \in users, desk \in desks,
          fault \in Faults :
          LET r == nReq + 1
              create == sid = ""
              session_id == IF create THEN MintIds[minted + 1] ELSE sid
              raised == fault = "BotoCoreError" /\ (create \/ text # <<>>)
              history == IF create \/ text = <<>> \/ raised THEN <<>>
                         ELSE load_session(store[sid], fault).value
              base == [NoRequest EXCEPT
                          !.pc = "raised", !.session_id = session_id,
                          !.user_message = text, !.user_id = user, !.desk_name = desk,
                          !.prior = {q \in 1..nReq : reqs[q].pc = "responded"},
                          !.history = history,
                          !.enriched_query = IF text = <<>> \/ raised THEN <<>>
                                             ELSE EnrichedQuery(history, text)]
          IN  /\ minted' = IF create THEN minted + 1 ELSE minted
              /\ store' = IF create /\ fault = "ok"
                          THEN [store EXCEPT ![session_id] = NewItem(user, desk)]
                          ELSE store
              /\ reqs' = [reqs EXCEPT ![r] =
                    IF raised THEN base
                    ELSE IF text = <<>>
                    THEN [base EXCEPT !.pc = "responded",
                                      !.response = Response(<<"No user message found.">>,
                                                            session_id)]
                    ELSE [base EXCEPT !.pc = "running"]]
    /\ UNCHANGED <<MAX_MESSAGES, MAX_MSG_CHARS, okTurns>>
    /\ UNCHANGED notSessVars

Receive == ReceiveWith(UserTexts, Users, Desks)

\* the same handler, for the requests of traders
ReceiveTrader == ReceiveWith(TraderTexts, TraderUsers, TraderDesks)

\* server.py lines 236-256: the pipeline returns its final response, the
\* save is handed to the executor and the response is returned; seq is the
\* position of this save among the saves the gateway has scheduled
Respond(r) ==
    /\ reqs[r].pc = "running"
    /\ \E retr \in GatewayRetrieverOutcomes, orch \in GatewayOrchestratorOutcomes :
          LET content == _run_agent(reqs[r].enriched_query, retr, orch)
          IN  reqs' = [reqs EXCEPT ![r].pc = "responded",
                                   ![r].seq = 1 + Cardinality({q \in 1..nReq : reqs[q].seq > 0}),
                                   ![r].content = content,
                                   ![r].route = DispatchBranch(reqs[r].enriched_query, retr),
                                   ![r].response = Response(content, reqs[r].session_id),
                                   ![r].save = "queued"]
    /\ UNCHANGED <<MAX_MESSAGES, MAX_MSG_CHARS, store, minted, nReq, okTurns>>
    /\ UNCHANGED notSessVars

\* sessions.py lines 178-180: the save task reads the log; an exception
\* that is no ClientError ends the task (nobody awaits its future)
SaveLoad(r) ==
    /\ reqs[r].save = "queued"
    /\ \E fault \in Faults :
          LET got == load_session(store[reqs[r].session_id], fault)
          IN  reqs' = IF got.kind = "raise"
                      THEN [reqs EXCEPT ![r].save = "dropped"]
                      ELSE [reqs EXCEPT ![r].save = "loaded", ![r].current = got.value]
    /\ UNCHANGED <<MAX_MESSAGES, MAX_MSG_CHARS, store, minted, nReq, okTurns>>
    /\ UNCHANGED notSessVars

\* C30 mutant: the update of an item that does not exist creates it
SaveUpdateUpsert(r) ==
    /\ reqs[r].save = "loaded"
    /\ \E fault \in Faults :
          LET sid  == reqs[r].session_id
              msgs == NewLog(reqs[r].current, reqs[r].user_message, reqs[r].content,
                             MAX_MESSAGES, MAX_MSG_CHARS)
              done == fault = "ok"
              item == IF store[sid] = NoRow
                      THEN NewItem(reqs[r].user_id, reqs[r].desk_name)
                      ELSE store[sid]
          IN  /\ store' = IF done
                          THEN [store EXCEPT ![sid] =
                                    UpdatedItem(item, msgs, reqs[r].user_id,
                                                reqs[r].desk_name)]
                          ELSE store
              /\ okTurns' = IF done THEN [okTurns EXCEPT ![sid] = @ + 1] ELSE okTurns
              /\ reqs' = [reqs EXCEPT ![r].save = IF done THEN "saved" ELSE "dropped",
                                      ![r].current = <<>>]
    /\ UNCHANGED <<MAX_MESSAGES, MAX_MSG_CHARS, minted, nReq>>
    /\ UNCHANGED notSessVars

\* sessions.py lines 183-212: the save task appends the turn, rotates and
\* updates the item; the update of an item that does not exist is rejected
\* (message_count + :inc has no operand), which is a ClientError
SaveUpdate(r) ==
    /\ reqs[r].save = "loaded"
    /\ \E fault \in Faults :
          LET sid  == reqs[r].session_id
              msgs == NewLog(reqs[r].current, reqs[r].user_message, reqs[r].content,
                             MAX_MESSAGES, MAX_MSG_CHARS)
              done == fault = "ok" /\ store[sid] # NoRow
          IN  /\ store' = IF done
                          THEN [store EXCEPT ![sid] =
                                    UpdatedItem(store[sid], msgs, reqs[r].user_id,
                                                reqs[r].desk_name)]
                          ELSE store
              /\ okTurns' = IF done THEN [okTurns EXCEPT ![sid] = @ + 1] ELSE okTurns
              /\ reqs' = [reqs EXCEPT ![r].save = IF done THEN "saved" ELSE "dropped",
                                      ![r].current = <<>>]
    /\ UNCHANGED <<MAX_MESSAGES, MAX_MSG_CHARS, minted, nReq>>
    /\ UNCHANGED notSessVars

\* the table deletes an item whose ttl has passed
Expire(s) ==
    /\ store[s] # NoRow
    /\ store' = [store EXCEPT ![s] = NoRow]
    /\ UNCHANGED <<MAX_MESSAGES, MAX_MSG_CHARS, minted, nReq, reqs, okTurns>>
    /\ UNCHANGED notSessVars

Next ==
    \/ Receive
    \/ \E r \in 1..MaxRequests : Respond(r)
    \/ \E r \in 1..MaxRequests : SaveLoad(r)
    \/ \E r \in 1..MaxRequests : SaveUpdate(r)
    \/ \E s \in SessionIds : Expire(s)

\* the gateway serving traders
NextTraders ==
    \/ ReceiveTrader
    \/ \E r \in 1..MaxRequests : Respond(r)
    \/ \E r \in 1..MaxRequests : SaveLoad(r)
    \/ \E r \in 1..MaxRequests : SaveUpdate(r)
    \/ \E s \in SessionIds : Expire(s)

RouterInit ==
    /\ rPc = "idle"
    /\ rReg = None
    /\ rLlm = None
    /\ rResult = None

\* one call of route_query
Route ==
    /\ rPc = "idle"
    /\ \E reg \in list_all_agents, llm \in LlmOutcomes :
          /\ rReg' = reg
          /\ rLlm' = llm
          /\ rResult' = route_query(reg, llm)
    /\ rPc' = "done"
    /\ UNCHANGED notRouterVars

RouterNext == Route

InitRouter == RouterInit /\ FanoutInit /\ SessionOff /\ PipelineOff /\ WorkerOff /\ PoolInit

SpecRouter == InitRouter /\ [][RouterNext]_vars

InitFanout == RouterInit /\ FanoutInit /\ SessionOff /\ PipelineOff /\ WorkerOff /\ PoolInit

SpecFanout == InitFanout /\ [][FanoutNext]_vars

\* every exchange ends (httpx raises a TimeoutException after timeout
\* seconds without an answer), the event loop runs the coroutines that can
\* run, and _run_financial goes on when call_agents_parallel_sync returns
SpecFanoutFair == InitFanout /\ [][FanoutNext]_vars /\ WF_vars(FanoutNext)

Init == RouterInit /\ FanoutInit /\ SessionInit /\ PipelineOff /\ WorkerOff /\ PoolInit

Spec == Init /\ [][Next]_vars

InitPipeline == RouterInit /\ FanoutInit /\ SessionOff /\ PipelineOff /\ WorkerOff /\ PoolInit

SpecPipeline == InitPipeline /\ [][PipelineNext]_vars /\ WF_vars(PipelineNext)

InitWorker == RouterInit /\ FanoutInit /\ SessionOff /\ PipelineOff /\ WorkerInit /\ PoolInit

\* the gateway with the default window of the session log scaled down
InitTraders ==
    /\ Init
    /\ MAX_MESSAGES = 2 * MaxMessagesCfg

SpecTraders == InitTraders /\ [][NextTraders]_vars

InitPool == RouterInit /\ FanoutInit /\ SessionOff /\ PipelineOff /\ WorkerOff /\ PoolInit

SpecPool == InitPool /\ [][PoolNext]_vars

\* the health check of a running worker keeps being invoked
SpecWorker == InitWorker /\ [][WorkerNext]_vars /\ WF_vars(Health)

Returned == rPc = "done" /\ rResult.kind = "return"

\* the JSON document of the answer, if it holds one
HasDoc == rLlm.kind = "text" /\ \E i \in 1..Len(rLlm.lines) : rLlm.lines[i].t = "json"
AnswerDoc == rLlm.lines[CHOOSE i \in 1..Len(rLlm.lines) : rLlm.lines[i].t = "json"]

\* the answer, stated on the input: the model call raised
ModelCallFailed == rLlm.kind = "raise"
\* ... or its text is not one JSON document once the fence is removed
ParseFailed == rLlm.kind = "text" /\ (~HasDoc \/ rLlm.lines[1] = Prose)
\* ... or the document is no object, or its "agents" cannot be iterated
ValidationFailed ==
    HasDoc /\ ~ParseFailed /\ (AnswerDoc.k # "object" \/ AnswerDoc.agents.t = "null")
RegistryFailed == rReg.kind = "raise"

\* the list the model named, when the answer is an object that names a list
NamedList == HasDoc /\ ~ParseFailed /\ AnswerDoc.k = "object" /\ AnswerDoc.agents.t = "list"

(***************************************************************************)
(* C8: every RouterDecision route_query returns has a non-empty agents     *)
(* list, whatever the model answered; and when the registry returned no    *)
(* workers every id of the list is a key of the static description table.  *)
(***************************************************************************)
C8_NonEmptyAgents ==
    Returned =>
        /\ Len(rResult.decision.agents) > 0
        /\ (ActiveAgents(rReg) = {} =>
                Range(rResult.decision.agents) \subseteq _AGENT_DESCRIPTIONS)

\* the validation emptied the list (every id unknown) with the registry empty
C8_Witness ==
    /\ Returned
    /\ rReg = [kind |-> "rows", ids |-> {}]
    /\ NamedList
    /\ AnswerDoc.agents.items = <<"ghost-agent">>
    /\ rResult.decision.agents = <<"kdb-agent">>

(***************************************************************************)
(* C9 as claimed: route_query never raises, and whenever a step fails --   *)
(* reading the registry included -- it returns the fallback decision       *)
(* (fallback_used, kdb-agent alone, parallel); with the registry           *)
(* unavailable the decision contains kdb-agent.                            *)
(***************************************************************************)
C9_Original ==
    rPc = "done" =>
        /\ rResult.kind = "return"
        /\ (RegistryFailed \/ ModelCallFailed \/ ParseFailed \/ ValidationFailed)
              => rResult.decision = FallbackDecision

(***************************************************************************)
(* C9 as amended: route_query never raises; when the model call, the JSON  *)
(* parsing or the validation raises it returns the fallback decision       *)
(* (fallback_used = true, kdb-agent alone, strategy parallel); when only   *)
(* the registry read fails it goes on with the static description table    *)
(* and returns the decision built from the model's answer, with            *)
(* fallback_used = false.                                                  *)
(***************************************************************************)
C9_NeverThrows ==
    rPc = "done" =>
        /\ rResult.kind = "return"
        /\ (ModelCallFailed \/ ParseFailed \/ ValidationFailed)
              => rResult.decision = FallbackDecision
        /\ ~(ModelCallFailed \/ ParseFailed \/ ValidationFailed)
              => ~rResult.decision.fallback_used

\* the registry read failed, the model answered well, and the decision is the
\* model's, not the fallback
C9_Witness ==
    /\ Returned
    /\ RegistryFailed
    /\ NamedList
    /\ AnswerDoc.agents.items = <<"etf-agent">>
    /\ rResult.decision.agents = <<"etf-agent">>
    /\ ~rResult.decision.fallback_used

(***************************************************************************)
(* C10 as claimed: no RouterDecision holds an id outside the catalogue     *)
(* (registry ids that have a static description; the whole static table    *)
(* when the registry returned nothing), except the default worker put in   *)
(* place of an empty list.                                                 *)
(***************************************************************************)
C10_Original ==
    Returned =>
        \/ rResult.decision.agents = <<_FALLBACK_AGENT>>
        \/ Range(rResult.decision.agents) \subseteq Catalogue(rReg)

(***************************************************************************)
(* C10 as amended: the validation keeps only the ids that are keys of the  *)
(* static description table, whatever the registry returned: the decision  *)
(* holds no id outside that table, and when the model named a list the     *)
(* decision's list is that list restricted to the table, in order, or the  *)
(* default worker alone when nothing is left.                              *)
(***************************************************************************)
C10_KeepsStaticIds ==
    Returned =>
        /\ Range(rResult.decision.agents) \subseteq _AGENT_DESCRIPTIONS
        /\ NamedList =>
              LET kept == SelectSeq(AnswerDoc.agents.items,
                                    LAMBDA a : a \in _AGENT_DESCRIPTIONS)
              IN  rResult.decision.agents =
                      IF kept = <<>> THEN <<_FALLBACK_AGENT>> ELSE kept

\* the registry lists etf-agent only, the model names a described worker that
\* is not registered and an unknown one: the first is kept, the second dropped
C10_Witness ==
    /\ Returned
    /\ rReg = [kind |-> "rows", ids |-> {"etf-agent"}]
    /\ NamedList
    /\ AnswerDoc.agents.items = <<"risk-pnl-agent", "ghost-agent">>
    /\ rResult.decision.agents = <<"risk-pnl-agent">>

(***************************************************************************)
(* Claims on the gateway and the session store (Spec)                      *)
(***************************************************************************)
Received == 1..nReq
HasRow(s) == store[s] # NoRow

(***************************************************************************)
(* C1: every chat request gets a response whose session_id is non-empty,   *)
(* even when the operations of the session store fail: no fault of the     *)
(* store leaves the handler.                                               *)
(***************************************************************************)
C1_Original ==
    \A r \in Received :
        /\ reqs[r].pc # "raised"
        /\ reqs[r].pc = "responded" => reqs[r].response.session_id # ""

(***************************************************************************)
(* C5: in every state, for every configured MAX_MESSAGES, the persisted    *)
(* log of a session has at most MAX_MESSAGES entries.                      *)
(***************************************************************************)
C5_Original ==
    \A s \in SessionIds : HasRow(s) => Len(store[s].messages) <= MAX_MESSAGES

(***************************************************************************)
(* C6: the message_count of a persisted session never decreases, and it is *)
(* at least the number of turns appended to the session (turns whose       *)
(* append was persisted), rotated-out turns included.                      *)
(***************************************************************************)
C6_CountNeverDecreases ==
    /\ [][\A s \in SessionIds :
            (HasRow(s) /\ store'[s] # NoRow) =>
                store'[s].message_count >= store[s].message_count]_vars
    /\ [](\A s \in SessionIds : HasRow(s) => store[s].message_count >= okTurns[s])

\* two turns were appended to one session and the first was rotated out of
\* the log: the count is 2, the log holds one turn
C6_Witness ==
    \E s \in SessionIds :
        /\ MAX_MESSAGES = 2
        /\ HasRow(s)
        /\ okTurns[s] = 2
        /\ store[s].message_count = 2
        /\ Len(store[s].messages) = 2

(***************************************************************************)
(* C7: every content persisted in a session log has at most MAX_MSG_CHARS  *)
(* characters, whatever the length of the user and the assistant text.     *)
(***************************************************************************)
C7_Original ==
    \A s \in SessionIds :
        HasRow(s) =>
            \A i \in 1..Len(store[s].messages) :
                Len(store[s].messages[i].content) <= MAX_MSG_CHARS

(***************************************************************************)
(* Claims on the A2A client, the fan-out and the merger (SpecFanout)       *)
(***************************************************************************)
IsString(v) == v \in Seq(STRING)

Positions == 1..Len(fCalls)
CallDone(i) == i \in Positions /\ fCalls[i] # Pending

\* the worker of a finished call failed: failed status, timeout, unreachable,
\* non-2xx, malformed body
WorkerFailed(i) == fCalls[i].x.k = "exc" \/ fCalls[i].x.status = "failed"

RECURSIVE Dedup(_)
\* the ids of a list in the order of their first occurrence
Dedup(ids) ==
    IF ids = <<>> THEN <<>>
    ELSE <<Head(ids)>> \o SelectSeq(Dedup(Tail(ids)), LAMBDA a : a # Head(ids))

Keys(d) == [i \in 1..Len(d) |-> d[i][1]]
DictGet(d, k) == d[CHOOSE i \in 1..Len(d) : d[i][1] = k][2]

\* the last position of id k in the running batch
LastPos(k) == CHOOSE j \in 1..Len(fBatch) :
                 fBatch[j] = k /\ \A m \in (j+1)..Len(fBatch) : fBatch[m] # k

(***************************************************************************)
(* C2: call_agent never raises: whatever the HTTP exchange did (completed, *)
(* failed status, non-2xx, timeout, connection failure, malformed body),   *)
(* the coroutine ends by returning a string.                               *)
(***************************************************************************)
C2_NeverRaises ==
    \A i \in Positions :
        CallDone(i) => /\ fCalls[i].outcome.kind = "ok"
                       /\ IsString(fCalls[i].outcome.text)

\* a non-2xx answer (raise_for_status) ended as the formatted message
C2_Witness ==
    \E i \in Positions :
        /\ CallDone(i)
        /\ fCalls[i].x = [k |-> "exc", class |-> "HTTPStatusError"]
        /\ fCalls[i].outcome.kind = "ok"
        /\ fCalls[i].outcome.text =
              <<"A2A call to ", "http://etf-agent:8004", " failed: ", "HTTPStatusError">>

(***************************************************************************)
(* C3 as claimed: the map call_agents_parallel returns for K ids has       *)
(* exactly K entries, one per input id, and every value is a non-empty     *)
(* string, whichever workers failed.                                       *)
(***************************************************************************)
C3_Original ==
    fPc = "done" =>
        /\ Len(fReturned) = Len(fBatch)
        /\ \A i \in 1..Len(fBatch) : DictHas(fReturned, fBatch[i])
        /\ \A i \in 1..Len(fReturned) :
              IsString(fReturned[i][2]) /\ fReturned[i][2] # <<>>

(***************************************************************************)
(* C3 as amended: the returned map has exactly one entry per distinct      *)
(* input id, in the order of first occurrence (so K entries when the K ids *)
(* are pairwise distinct; an id listed twice keeps the value of its last   *)
(* call), every value is a string, and the value of a worker that failed   *)
(* (failed status, timeout, unreachable, other exception) or that          *)
(* completed without an artifact part is a non-empty string; a worker that *)
(* completed with an empty text contributes the empty string.              *)
(***************************************************************************)
C3_OneEntryPerId ==
    fPc = "done" =>
        /\ Keys(fReturned) = Dedup(fBatch)
        /\ \A i \in 1..Len(fReturned) : IsString(fReturned[i][2])
        /\ \A i \in 1..Len(fReturned) :
              LET x == fCalls[LastPos(fReturned[i][1])].x
              IN  /\ (x.k = "exc" \/ x.status = "failed" \/ x.parts = <<>>)
                        => fReturned[i][2] # <<>>
                  /\ (x.k = "result" /\ x.status = "completed" /\ x.parts # <<>>)
                        => fReturned[i][2] = x.parts[1]

\* two distinct workers in parallel, the first times out, the second
\* completes
C3_Witness ==
    /\ fPc = "done"
    /\ fDecision = [agents |-> <<"etf-agent", "portfolio-agent">>, strategy |-> "parallel"]
    /\ fCalls[1].x = [k |-> "exc", class |-> "ReadTimeout"]
    /\ fCalls[2].x.k = "result" /\ fCalls[2].x.status = "completed"
    /\ Len(fReturned) = 2
    /\ fReturned[1][2] =
          <<"Agent at ", "http://etf-agent:8004", " timed out after ", "120", "s.">>

RECURSIVE SectionHeaders(_)
\* the headers of the "## " sections of a merged text, in the order of the text
SectionHeaders(text) ==
    IF Len(text) < 2 THEN <<>>
    ELSE IF Head(text) = "## "
         THEN <<text[2]>> \o SectionHeaders(Tail(Tail(text)))
         ELSE SectionHeaders(Tail(text))

(***************************************************************************)
(* C4: the sections of the merged response follow the order of the         *)
(* decision's id list (each id at its first occurrence), not the order in  *)
(* which the workers completed, under the parallel and the sequential      *)
(* strategy.                                                               *)
(***************************************************************************)
C4_MergeInInputOrder ==
    (fPc = "done" /\ Len(fResults) > 1) =>
        SectionHeaders(fResearch) =
            [i \in 1..Len(Dedup(fDecision.agents)) |-> Header(Dedup(fDecision.agents)[i])]

\* parallel fan-out in which the second worker completed first
C4_Witness ==
    /\ fPc = "done"
    /\ fDecision = [agents |-> <<"etf-agent", "portfolio-agent">>, strategy |-> "parallel"]
    /\ fOrder = <<2, 1>>
    /\ SectionHeaders(fResearch) = <<"Etf Agent", "Portfolio Agent">>

(***************************************************************************)
(* Claims on the pipeline (SpecPipeline)                                   *)
(***************************************************************************)
Ended == pPc = "end"
NodeOrder == <<"intake", "retrieve", "strands", "format">>
IsPrefix(a, b) == Len(a) <= Len(b) /\ a = SubSeq(b, 1, Len(a))

(***************************************************************************)
(* C11: when a node has set error, the final_response of the terminated    *)
(* pipeline is the literal "Error: " followed by the error text.           *)
(***************************************************************************)
C11_ErrorPrefix ==
    (Ended /\ Truthy(pState.error)) =>
        /\ pState.final_response.kind = "some"
        /\ pState.final_response.v # <<>>
        /\ Head(pState.final_response.v) = "Error: "
        /\ Tail(pState.final_response.v) = pState.error.v

\* the run of an empty query has ended: intake had set error and a
\* final_response of its own, format has replaced it
C11_Witness ==
    /\ Ended
    /\ pState.query.v = <<" ", "\n">>
    /\ pState.error.kind = "some"
    /\ pState.final_response.kind = "some"
    /\ pState.final_response.v = <<"Error: ", "Empty query received.">>

(***************************************************************************)
(* C12: once error is set, retrieve and strands return an empty update and *)
(* leave every field of the state unchanged (and call neither the          *)
(* retriever nor the orchestrator).                                        *)
(***************************************************************************)
C12_NoOpAfterError ==
    [][(pPc \in {"retrieve", "strands"} /\ Truthy(pState.error)) =>
            /\ DOMAIN pLast' = {}
            /\ \A f \in DOMAIN pState :
                  /\ pState'[f].kind = pState[f].kind
                  /\ pState[f].kind = "some" => pState'[f].v = pState[f].v
            /\ pRetr' = pRetr
            /\ pOrch' = pOrch]_vars

\* retrieve failed and strands has then returned the empty update
C12_Witness ==
    /\ pTrace = <<"intake", "retrieve", "strands">>
    /\ pRetr.kind = "raise"
    /\ Truthy(pState.error)
    /\ DOMAIN pLast = {}
    /\ pState.synthesis.kind = "none"

(***************************************************************************)
(* C19: the nodes of a run return in the order intake, retrieve, strands,  *)
(* format, each once; no exception leaves the graph; every run reaches END *)
(* with final_response set, also when the retriever or the orchestrator    *)
(* raised.                                                                 *)
(***************************************************************************)
C19_OrderAndEnd ==
    /\ [](/\ IsPrefix(pTrace, NodeOrder)
          /\ pPc # "raised"
          /\ pPc \in {"intake", "retrieve", "strands", "format"} =>
                pPc = NodeOrder[Len(pTrace) + 1]
          /\ Ended => (pTrace = NodeOrder /\ pState.final_response.kind = "some"))
    /\ (pPc = "intake") ~> Ended

\* a run in which the orchestrator raised has reached END
C19_Witness ==
    /\ Ended
    /\ pOrch.kind = "raise"
    /\ pTrace = NodeOrder
    /\ pState.final_response.kind = "some"

(***************************************************************************)
(* Claims on the gateway with the pipeline and the session store (Spec)    *)
(***************************************************************************)
IsInfix(a, b) == \E i \in 0..(Len(b) - Len(a)) : SubSeq(b, i + 1, i + Len(a)) = a
Ran(r) == reqs[r].pc \in {"running", "responded"}
SentSession(r) == reqs[r].session_id \notin {MintIds[i] : i \in 1..minted} \/
                  \E q \in reqs[r].prior : reqs[q].session_id = reqs[r].session_id

\* the two lines build_context_string renders for the turn of request q
RenderedTurn(q) ==
    <<"\n", "Trader: ">> \o _truncate(reqs[q].user_message, MAX_MSG_CHARS)
        \o <<"\n", "System: ">> \o _truncate(reqs[q].content, MAX_MSG_CHARS)
\* the log entries save_session appends for the turn of request q
TurnMessages(q) ==
    <<Msg("user", _truncate(reqs[q].user_message, MAX_MSG_CHARS)),
      Msg("assistant", _truncate(reqs[q].content, MAX_MSG_CHARS))>>

(***************************************************************************)
(* C15: when a request carries the session_id that the response to an      *)
(* earlier request returned, the query handed to the pipeline contains     *)
(* "[Conversation History" and the user text and the assistant response of *)
(* the earlier turn, whatever the interleaving with the earlier save.      *)
(***************************************************************************)
C15_Original ==
    \A r2 \in Received : \A r1 \in reqs[r2].prior :
        (/\ Ran(r2)
         /\ reqs[r1].user_message # <<>>
         /\ reqs[r2].session_id = reqs[r1].response.session_id) =>
            /\ HistoryHeader[1] \in Range(reqs[r2].enriched_query)
            /\ IsInfix(reqs[r1].user_message, reqs[r2].enriched_query)
            /\ IsInfix(reqs[r1].content, reqs[r2].enriched_query)

(***************************************************************************)
(* C15 as amended: a request that carries a session_id is run on the log   *)
(* that its load of the session returns: the persisted log, or the empty   *)
(* log (no row, nothing persisted yet, or a ClientError).  With the empty  *)
(* log the query is the user text alone; otherwise the query starts with   *)
(* "[Conversation History", ends with the current-query mark and the user  *)
(* text, and holds, for every earlier turn whose two entries are in the    *)
(* log that was loaded, the two rendered lines of that turn with the       *)
(* contents as persisted (truncated).                                      *)
(***************************************************************************)
C15_HistoryAsLoaded ==
    [][nReq' = nReq + 1 =>
        LET r2 == nReq'
            q2 == reqs'[r2]
            sid == q2.session_id
        IN  (q2.pc = "running" /\ sid \in ClientSessionIds \ {""}) =>
               /\ q2.history = <<>> \/ (HasRow(sid) /\ q2.history = store[sid].messages)
               /\ q2.history = <<>> => q2.enriched_query = q2.user_message
               /\ q2.history # <<>> =>
                     /\ Head(q2.enriched_query) = HistoryHeader[1]
                     /\ IsInfix(<<CurrentQueryMark>> \o q2.user_message, q2.enriched_query)
                     /\ \A r1 \in q2.prior :
                           IsInfix(TurnMessages(r1), q2.history) =>
                               IsInfix(RenderedTurn(r1), q2.enriched_query)]_vars

\* the second request was received after the save of the first turn: its
\* query holds the history block with both messages of the first turn
C15_Witness ==
    \E r2 \in Received : \E r1 \in reqs[r2].prior :
        /\ Ran(r2)
        /\ reqs[r1].save = "saved"
        /\ reqs[r2].session_id = reqs[r1].response.session_id
        /\ reqs[r2].history = TurnMessages(r1)
        /\ Head(reqs[r2].enriched_query) = HistoryHeader[1]
        /\ IsInfix(RenderedTurn(r1), reqs[r2].enriched_query)

(***************************************************************************)
(* C16: a request whose last user message is whitespace only gets, with or *)
(* without a session_id, a response whose content starts with              *)
(* "Error: Empty query received." and whose session_id is not empty.       *)
(***************************************************************************)
WhitespaceOnly(text) == text # <<>> /\ Strip(text) = <<>>

C16_Original ==
    \A r \in Received :
        (reqs[r].pc = "responded" /\ WhitespaceOnly(reqs[r].user_message)) =>
            /\ IsPrefix(<<"Error: ", "Empty query received.">>, reqs[r].response.content)
            /\ reqs[r].response.session_id # ""

(***************************************************************************)
(* C20: when the gateway scheduled the save of turn A before the save of   *)
(* turn B of the same session, A's messages precede B's in every persisted *)
(* log that holds both.                                                    *)
(***************************************************************************)
UserPositions(log, q) ==
    {i \in 1..Len(log) :
        log[i] = Msg("user", _truncate(reqs[q].user_message, MAX_MSG_CHARS))}

C20_Original ==
    \A a \in Received, b \in Received :
        (/\ reqs[a].seq > 0
         /\ reqs[a].seq < reqs[b].seq
         /\ reqs[a].session_id = reqs[b].session_id
         /\ reqs[a].user_message # reqs[b].user_message
         /\ MAX_MESSAGES >= 4
         /\ HasRow(reqs[a].session_id)) =>
            \A i \in UserPositions(store[reqs[a].session_id].messages, a),
               j \in UserPositions(store[reqs[a].session_id].messages, b) : i < j

(***************************************************************************)
(* Claims on the registry and the worker service (SpecWorker)              *)
(***************************************************************************)
Registered(id) == regTable[id].row /\ regTable[id].status = "healthy"
Answered == a2aLast.kind = "done"

(***************************************************************************)
(* C13: get_endpoint returns the endpoint of the registration exactly when *)
(* the lookup finds an item whose status is healthy, and the fallback in   *)
(* every other case: no item, another status, a fault of the lookup.       *)
(***************************************************************************)
C13_EndpointOrFallback ==
    resolved.kind = "done" =>
        /\ resolved.url \in {resolved.item.endpoint, resolved.fallback}
        /\ resolved.url =
              IF resolved.fault = "ok" /\ resolved.item.row
                                       /\ resolved.item.status = "healthy"
              THEN resolved.item.endpoint ELSE resolved.fallback
        /\ resolved.fallback # RegisteredUrl(resolved.id)

\* the item of the agent exists with a status that is not healthy, the
\* lookup worked, and the fallback was returned
C13_Witness ==
    /\ resolved.kind = "done"
    /\ resolved.fault = "ok"
    /\ resolved.item.row
    /\ resolved.item.status = "draining"
    /\ resolved.url = get_agent_url(TeamId)

(***************************************************************************)
(* C14: an item with status healthy has ttl > now, and a worker that has   *)
(* not refreshed its registration for more than the TTL is not resolved to *)
(* its registered endpoint.                                                *)
(***************************************************************************)
C14_Original ==
    /\ Registered(WorkerId) => regTable[WorkerId].ttl > now
    /\ (resolved.kind = "done" /\ resolved.id = WorkerId /\ resolved.expired) =>
            resolved.url = resolved.fallback

(***************************************************************************)
(* C17: every task posted to /a2a is answered with a result that echoes    *)
(* the task id: completed with one artifact of one text part when the      *)
(* handler returns, failed with an error string when it raises; the        *)
(* handler is given the first text part of the task.                       *)
(***************************************************************************)
ResultFor(task, outcome, answer) ==
    /\ answer.kind = "result"
    /\ answer.result.id = task.id
    /\ answer.handled = <<task.parts[1]>>
    /\ outcome = "return" =>
          /\ answer.result.status = "completed"
          /\ Len(answer.result.artifacts) = 1
          /\ Len(answer.result.artifacts[1]) = 1
          /\ answer.result.error.kind = "none"
    /\ outcome = "raise" =>
          /\ answer.result.status = "failed"
          /\ answer.result.artifacts = <<>>
          /\ answer.result.error.kind = "some"

C17_Original ==
    Answered =>
        /\ a2aLast.answer.kind = "result"
        /\ a2aLast.task.parts # <<>>
        /\ ResultFor(a2aLast.task, a2aLast.outcome, a2aLast.answer)

(***************************************************************************)
(* C17 as amended: a task with at least one part is answered as the claim  *)
(* says; a task whose message has no parts is answered with the HTTP error *)
(* 400 and the handler is not called.                                      *)
(***************************************************************************)
C17_ResultForTaskWithParts ==
    Answered =>
        IF a2aLast.task.parts = <<>>
        THEN /\ a2aLast.answer.kind = "http_error"
             /\ a2aLast.answer.status_code = 400
             /\ a2aLast.answer.handled = <<>>
        ELSE ResultFor(a2aLast.task, a2aLast.outcome, a2aLast.answer)

\* the handler raised on the first part of a two-part task
C17_Witness ==
    /\ Answered
    /\ a2aLast.task = [id |-> "t-2", parts |-> <<"q1", "q2">>]
    /\ a2aLast.outcome = "raise"
    /\ a2aLast.answer.result.status = "failed"
    /\ a2aLast.answer.result.id = "t-2"
    /\ a2aLast.answer.handled = <<"q1">>

(***************************************************************************)
(* C18: a running worker whose health check keeps being invoked is         *)
(* eventually registered as healthy once the backend is available, and     *)
(* after a graceful shutdown its row is deleted.                           *)
(***************************************************************************)
EventuallyRegistered ==
    (wState = "running" /\ regUp) ~>
        (Registered(WorkerId) \/ ~regUp \/ wState # "running")

C18_Original ==
    /\ EventuallyRegistered
    /\ [](wState = "stopped" => ~regTable[WorkerId].row)

(***************************************************************************)
(* C18 as amended: the registration is eventual as above, every write of   *)
(* a running worker's row is a healthy registration that expires one TTL   *)
(* later; the shutdown deletes the row when the delete reaches the         *)
(* backend and leaves it as it is when the delete fails; a stopped worker  *)
(* never writes its row again.                                             *)
(***************************************************************************)
C18_EventualRegistration ==
    /\ EventuallyRegistered
    /\ [][(wState' = "running" /\ regTable'[WorkerId] # regTable[WorkerId]
                               /\ regTable'[WorkerId].row) =>
             (Registered(WorkerId)' /\ regTable'[WorkerId].ttl = now + _TTL_SECONDS)]_vars
    /\ [][(wState = "running" /\ wState' = "stopped") =>
             IF regUp THEN ~regTable'[WorkerId].row
             ELSE regTable'[WorkerId] = regTable[WorkerId]]_vars
    /\ [][(wState = "stopped" /\ ~regTable[WorkerId].row) => ~regTable'[WorkerId].row]_vars

\* the registration at startup failed, and a later health check registered
\* the worker
C18_Witness ==
    /\ wState = "running"
    /\ wStartReg = "failed"
    /\ regUp
    /\ Registered(WorkerId)

(***************************************************************************)
(* Claims on concurrent saves and on saves without a row (Spec)            *)
(***************************************************************************)
\* the save task of request r completes its update_item in this step
SaveCompletes(r) == reqs[r].save = "loaded" /\ reqs'[r].save = "saved"

(***************************************************************************)
(* C21: appends to one session are not serialized.  Every append that      *)
(* completes adds exactly one to the message_count the item holds at the   *)
(* moment of the update, and writes as the log the log its own earlier     *)
(* read returned plus its turn (rotated), whatever the log of the item is  *)
(* by then.  So two concurrent appends can leave message_count grown by 2  *)
(* and a log with only one of the two turns (C21_Witness).                 *)
(***************************************************************************)
C21_CountAtomicLogLastWriter ==
    [][\A r \in 1..MaxRequests :
          SaveCompletes(r) =>
             LET sid == reqs[r].session_id
             IN  /\ HasRow(sid)
                 /\ store'[sid].message_count = store[sid].message_count + 1
                 /\ store'[sid].messages =
                       NewLog(reqs[r].current, reqs[r].user_message, reqs[r].content,
                              MAX_MESSAGES, MAX_MSG_CHARS)]_vars

\* the lost update: both saves of two different turns of one session are
\* done, the window holds two turns, the counter went from 0 to 2 and the
\* log is the turn of one request only
C21_Witness ==
    \E a \in Received, b \in Received :
        /\ a # b
        /\ reqs[a].session_id = reqs[b].session_id
        /\ reqs[a].user_message # reqs[b].user_message
        /\ reqs[a].save = "saved" /\ reqs[b].save = "saved"
        /\ MAX_MESSAGES >= 4
        /\ HasRow(reqs[a].session_id)
        /\ okTurns[reqs[a].session_id] = 2
        /\ store[reqs[a].session_id].message_count = 2
        /\ store[reqs[a].session_id].messages = TurnMessages(b)
        /\ UserPositions(store[reqs[a].session_id].messages, a) = {}

(***************************************************************************)
(* Claims on the financial branch and its fan-out invocations (SpecFanout) *)
(***************************************************************************)
Events(kind) == SelectSeq(fTrace, LAMBDA ev : ev.e = kind)
\* the tasks posted to worker id so far
PostsTo(id) == SelectSeq(fTrace, LAMBDA ev : ev.e = "post" /\ ev.id = id)
\* the positions of id in the decision's list
Listed(id) == {i \in 1..Len(fDecision.agents) : fDecision.agents[i] = id}
\* the ids call_agents_parallel_sync is invoked with, invocation by invocation
ExpectedInvocations ==
    IF fDecision.strategy = "sequential"
    THEN [i \in 1..Len(fDecision.agents) |-> <<fDecision.agents[i]>>]
    ELSE <<fDecision.agents>>
\* every fan-out invocation but the first starts right after the return of
\* the one before it, and every task is posted inside an invocation
OneAtATime ==
    \A j \in 1..Len(fTrace) :
        /\ (fTrace[j].e = "invoke" /\ j > 1) => fTrace[j - 1].e = "return"
        /\ fTrace[j].e = "return" =>
              Len(SelectSeq(SubSeq(fTrace, 1, j), LAMBDA ev : ev.e = "return")) =
              Len(SelectSeq(SubSeq(fTrace, 1, j), LAMBDA ev : ev.e = "invoke"))
\* the question, then (with pre-retrieved documents) the pre-context block
\* with the text of every document
CarriesFullQuery(q) ==
    /\ Head(q) = Query
    /\ fRag = <<>> => q = <<Query>>
    /\ fRag # <<>> =>
          /\ Len(q) >= 2
          /\ q[2] = PreContextMark
          /\ \A i \in 1..Len(fRag) : IsInfix(<<"[", Decimal[i], "] ">> \o fRag[i].text, q)
MergeTitle == "# Multi-Source Financial Analysis\n\nQuery: "

(***************************************************************************)
(* C22 as claimed: under strategy=parallel the fan-out is invoked once     *)
(* with all selected ids, under strategy=sequential once per id in list    *)
(* order, each invocation after the return of the one before; each         *)
(* selected worker receives exactly one A2A call, with the full enriched   *)
(* query; when one worker was selected its text is research_text, without  *)
(* a merge block.                                                          *)
(***************************************************************************)
C22_Original ==
    fPc = "done" =>
        /\ [j \in 1..Len(Events("invoke")) |-> Events("invoke")[j].ids] = ExpectedInvocations
        /\ OneAtATime
        /\ \A id \in Range(fDecision.agents) :
              /\ Len(PostsTo(id)) = 1
              /\ CarriesFullQuery(PostsTo(id)[1].query)
        /\ Cardinality(Range(fDecision.agents)) = 1 =>
              /\ fResearch = fReturned[1][2]
              /\ MergeTitle \notin Range(fResearch)

(***************************************************************************)
(* C22 as amended: under strategy=parallel the fan-out is invoked once     *)
(* with the whole selected list, under strategy=sequential once per entry  *)
(* of the list, in list order, each invocation after the return of the one *)
(* before; every entry of the list gives exactly one A2A call to its       *)
(* worker (a worker listed twice is called twice), and every call carries  *)
(* the full enriched query: the question and, when documents were          *)
(* pre-retrieved, the pre-context block with them; when the list names one *)
(* worker only, the text its (last) call returned is research_text, with   *)
(* no merge block.                                                         *)
(***************************************************************************)
C22_OneCallPerListEntry ==
    /\ fPc # "idle" => OneAtATime
    /\ fPc = "done" =>
        /\ [j \in 1..Len(Events("invoke")) |-> Events("invoke")[j].ids] = ExpectedInvocations
        /\ \A j \in 1..Len(Events("invoke")) : CarriesFullQuery(Events("invoke")[j].query)
        /\ \A id \in Range(fDecision.agents) :
              /\ Len(PostsTo(id)) = Cardinality(Listed(id))
              /\ \A k \in 1..Len(PostsTo(id)) : CarriesFullQuery(PostsTo(id)[k].query)
        /\ Len(Events("post")) = Len(fDecision.agents)
        /\ Cardinality(Range(fDecision.agents)) = 1 =>
              /\ fResearch = fReturned[1][2]
              /\ MergeTitle \notin Range(fResearch)

\* two workers under the sequential strategy with two pre-retrieved
\* documents: two invocations, one task each, the second posted after the
\* first invocation returned
C22_Witness ==
    /\ fPc = "done"
    /\ fDecision = [agents |-> <<"etf-agent", "portfolio-agent">>, strategy |-> "sequential"]
    /\ Len(fRag) = 2
    /\ [j \in 1..Len(fTrace) |-> fTrace[j].e] =
          <<"invoke", "post", "return", "invoke", "post", "return">>
    /\ fTrace[2].id = "etf-agent" /\ fTrace[5].id = "portfolio-agent"
    /\ fTrace[5].query =
          <<Query, PreContextMark, "[", "1", "] ", "HY primer", "\n\n", "[", "2", "] ", "ETF flows">>

(***************************************************************************)
(* C23: the fan-out always terminates, and a slow or broken worker neither *)
(* blocks nor fails the group.  Every started run of the branch ends; the  *)
(* map call_agents_parallel returns has an entry for every id of the       *)
(* batch; the entry of a worker that did not answer within the timeout is  *)
(* the timeout message of its own endpoint; and the entry of a worker that *)
(* completed with a text is that text, unchanged, whatever the other       *)
(* workers did.  (The entry of an id is the one of its last call.)         *)
(***************************************************************************)
C23_TerminatesAndIsolates ==
    /\ [](fPc = "done" =>
            /\ \A i \in 1..Len(fBatch) : DictHas(fReturned, fBatch[i])
            /\ \A i \in 1..Len(fReturned) :
                  LET id == fReturned[i][1]
                      x  == fCalls[LastPos(id)].x
                      v  == fReturned[i][2]
                  IN  /\ (x.k = "exc" /\ x.class \in TimeoutClasses) =>
                            /\ Len(v) = 5
                            /\ v[1] = "Agent at "
                            /\ v[2] \in {RegisteredUrl(id), get_agent_url(id)}
                            /\ SubSeq(v, 3, 5) = <<" timed out after ", DefaultTimeout, "s.">>
                      /\ (x.k = "result" /\ x.status = "completed" /\ x.parts # <<>>) =>
                            v = x.parts[1])
    /\ (fPc = "calling" ~> fPc = "done")

\* a parallel fan-out over two workers: the second never answers and the
\* first completed before the deadline of the second
C23_Witness ==
    /\ fPc = "done"
    /\ fDecision = [agents |-> <<"etf-agent", "portfolio-agent">>, strategy |-> "parallel"]
    /\ fOrder = <<1, 2>>
    /\ fCalls[1].x.k = "result" /\ fCalls[1].x.status = "completed"
    /\ fCalls[2].x = [k |-> "exc", class |-> "ReadTimeout"]
    /\ fReturned =
          << <<"etf-agent", <<"ETF text">> >>,
             <<"portfolio-agent",
               <<"Agent at ", "http://10.0.0.5:8005", " timed out after ", "120", "s.">> >> >>

(***************************************************************************)
(* Claims on the pipeline, continued (SpecPipeline)                        *)
(***************************************************************************)
\* the retriever was called and gave no documents: it was unavailable or
\* its search failed (retrieve returns []), or retrieve raised
RetrieverFailed ==
    pRetr # NoOutcome /\ (pRetr.kind = "raise" \/ pRetr.docs = <<>>)

(***************************************************************************)
(* C24: a failure of the retriever is not fatal.  When the retriever is    *)
(* unavailable or its retrieve call fails, retrieve_node stores the empty  *)
(* pre-context and leaves error unset, and strands_node still calls the    *)
(* orchestrator, whose research and synthesis are stored.                  *)
(***************************************************************************)
C24_Original ==
    (RetrieverFailed /\ "retrieve" \in Range(pTrace)) =>
        /\ pState.rag_context.kind = "some" /\ pState.rag_context.v = <<>>
        /\ pTrace = <<"intake", "retrieve">> => ~Truthy(pState.error)
        /\ "strands" \in Range(pTrace) =>
              /\ pOrch # NoOutcome
              /\ pOrch.kind = "result" =>
                    /\ pState.research.kind = "some"
                    /\ pState.synthesis.kind = "some"

(***************************************************************************)
(* Claims on the gateway's worker pool and the compiled graph (SpecPool)   *)
(***************************************************************************)
\* the tasks of kind k that belong to request r: waiting in the queue, and
\* the threads that run one
Queued(k, r) == {i \in 1..Len(queue) : queue[i] = Task(k, r)}
Holding(k, r) == {w \in PoolThreads : slot[w].kind = k /\ slot[w].r = r}

(***************************************************************************)
(* C25: the graph is compiled once per process and reused: whatever the    *)
(* number of requests, first requests that run concurrently on the pool    *)
(* included, build_graph runs at most once and every run_query invokes the *)
(* same compiled graph.                                                    *)
(***************************************************************************)
C25_Original ==
    /\ builds <= 1
    /\ Cardinality(used) <= 1

(***************************************************************************)
(* C26: the save never prevents the delivery of a response.  While the     *)
(* pipeline of a request waits for a thread of the pool, some thread is    *)
(* idle or runs a pipeline: the threads are never all taken by writes to   *)
(* the session store, however many of these are stalled; and a request     *)
(* has at most one pipeline task and at most one save task, the save only  *)
(* once its response is being returned.                                    *)
(***************************************************************************)
C26_Original ==
    \A r \in PoolRequests :
        /\ Queued("pipeline", r) # {} =>
              \E w \in PoolThreads : slot[w].kind \in {"free", "pipeline"}
        /\ Cardinality(Queued("pipeline", r)) + Cardinality(Holding("pipeline", r)) <= 1
        /\ Cardinality(Queued("save", r)) + Cardinality(Holding("save", r)) <= 1
        /\ (Queued("save", r) # {} \/ Holding("save", r) # {}) => hPc[r] = "responded"

(***************************************************************************)
(* Claims on the user and the desk of a session (SpecTraders)              *)
(***************************************************************************)
(***************************************************************************)
(* C27: an append fills the user and the desk of the session when they     *)
(* were empty.  When a session was created by a request without user and   *)
(* without desk, and the save of a later request of the session that       *)
(* carries the user U and the desk D is done, the persisted session has    *)
(* user U and desk D; and a user and a desk that are not empty are not     *)
(* changed by an append.                                                   *)
(***************************************************************************)
C27_Original ==
    /\ [](\A a \in Received, b \in Received :
            (/\ a < b
             /\ reqs[a].session_id = reqs[b].session_id
             /\ reqs[a].session_id \in {MintIds[i] : i \in 1..minted}
             /\ reqs[a].user_id = <<>> /\ reqs[a].desk_name = ""
             /\ reqs[b].user_id # <<>> /\ reqs[b].desk_name # ""
             /\ reqs[b].save = "saved"
             /\ HasRow(reqs[b].session_id)) =>
                /\ store[reqs[b].session_id].user_id = reqs[b].user_id
                /\ store[reqs[b].session_id].desk_name = reqs[b].desk_name)
    /\ [][\A r \in 1..MaxRequests :
            (SaveCompletes(r) /\ store[reqs[r].session_id].user_id # <<>>) =>
                /\ store'[reqs[r].session_id].user_id = store[reqs[r].session_id].user_id
                /\ store'[reqs[r].session_id].desk_name = store[reqs[r].session_id].desk_name]_vars

(***************************************************************************)
(* Claims on the strategy of the router's decision (SpecRouter)            *)
(***************************************************************************)
RiskWorker == "risk-pnl-agent"

(***************************************************************************)
(* C28: every RouterDecision route_query returns has a strategy that is    *)
(* "parallel" or "sequential", and it is "sequential" only when the list   *)
(* of selected workers includes the risk worker, risk-pnl-agent.           *)
(***************************************************************************)
C28_Original ==
    Returned =>
        /\ rResult.decision.strategy \in {"parallel", "sequential"}
        /\ rResult.decision.strategy = "sequential" =>
              RiskWorker \in Range(rResult.decision.agents)

(***************************************************************************)
(* Claims on the gateway, continued (Spec)                                 *)
(***************************************************************************)
\* the pipeline of request r has returned
PipelineDone(r) == reqs[r].seq > 0

(***************************************************************************)
(* C29: the branch a user message is dispatched on does not depend on the  *)
(* stored history of its session: when a message sent without history is   *)
(* dispatched on the general branch, the same message sent in a session    *)
(* with a history that is not empty is dispatched on the general branch    *)
(* too.                                                                    *)
(***************************************************************************)
C29_Original ==
    \A r1 \in Received, r2 \in Received :
        (/\ PipelineDone(r1) /\ PipelineDone(r2)
         /\ reqs[r1].user_message = reqs[r2].user_message
         /\ reqs[r1].history = <<>>
         /\ reqs[r1].route = "general"
         /\ reqs[r2].history # <<>>) =>
            reqs[r2].route = "general"

(***************************************************************************)
(* C30: a turn appended for a session id that has no row in the store      *)
(* (the create failed, the client made the id up, or the table deleted the *)
(* row) is dropped and does not create the row.  Rows come into being only *)
(* by create_session, for the id it has just minted; a save task whose     *)
(* update finds no row ends without a row and without an entry; and a      *)
(* request that carries an id without row is run on the empty log, however *)
(* many turns of that id came before.                                      *)
(***************************************************************************)
C30_DroppedWithoutRow ==
    [][/\ \A s \in SessionIds :
             (~HasRow(s) /\ HasRow(s)') =>
                 /\ minted' = minted + 1
                 /\ s = MintIds[minted']
                 /\ store'[s].messages = <<>>
       /\ \A r \in 1..MaxRequests :
             (/\ reqs[r].save = "loaded"
              /\ reqs'[r].save # "loaded"
              /\ ~HasRow(reqs[r].session_id)) =>
                 /\ reqs'[r].save = "dropped"
                 /\ ~HasRow(reqs[r].session_id)'
                 /\ okTurns' = okTurns
       /\ nReq' = nReq + 1 =>
             (~HasRow(reqs'[nReq'].session_id) =>
                 /\ reqs'[nReq'].history = <<>>
                 /\ reqs'[nReq'].enriched_query \in {<<>>, reqs'[nReq'].user_message})]_vars

\* two turns of an id the client made up: both saves were dropped, the
\* second request was answered after the first and ran without history, and
\* the id still has no row
C30_Witness ==
    \E a \in Received, b \in Received :
        /\ a \in reqs[b].prior
        /\ reqs[a].session_id = ClientId /\ reqs[b].session_id = ClientId
        /\ reqs[a].user_message = <<"a", "b", "c">>
        /\ reqs[a].save = "dropped" /\ reqs[b].save = "dropped"
        /\ PipelineDone(b)
        /\ reqs[b].history = <<>>
        /\ ~HasRow(ClientId)
        /\ okTurns[ClientId] = 0

====
